---- MODULE Spec2Model ----
(***************************************************************************)
(* Apartment-Hunter backend: the anti-hallucination question pipeline      *)
(* (backend/utils/question_generator.py) and the tiered hybrid sentiment   *)
(* classifier (backend/mock_reddit_data.py).                               *)
(*                                                                         *)
(* Python values are modelled as follows.  A dict is a record (a function  *)
(* whose DOMAIN is the set of keys that are present).  A value that the    *)
(* code expects to be a list or a dict but that JSON allows to be          *)
(* something else carries its Python type in the field "py": PyList(s) is  *)
(* a list, PyNone is None, PyStr(s) is a str.  Strings are TLA+ strings;   *)
(* Len, SubSeq and \o work on them character by character.                 *)
(***************************************************************************)
EXTENDS Integers, Sequences, FiniteSets, TLC

VARIABLES
    \* ---- question pipeline: one generate_questions request -------------
    text_analysis,      \* argument: result of the text analyzer
    image_analysis,     \* argument: result of the image analyzer
    student_reviews,    \* argument: student context
    generator,          \* what the external generation service did on this request
    qg_gemini_client,   \* question_generator._gemini_client
    qpc,                \* "idle" | "ready" | "tagged" | "validated" | "returned" | "raised"
    questions,          \* return value of generate_questions
    tagged_flags,       \* local of generate_questions
    valid_flag_ids,     \* local of generate_questions
    validated,          \* _validate_llm_output: accepted candidates
    hallucination_count,\* _validate_llm_output: rejected candidates
    should_fallback,    \* _validate_llm_output: second component of the result
    path,               \* which return statement was taken
    gen_calls,          \* calls of client.generate_questions in this request
    \* ---- sentiment classifier: one infer_sentiment call ----------------
    text,               \* argument
    use_hybrid,         \* argument
    classifier,         \* what the external sentiment service did on this call
    mrd_gemini_client,  \* mock_reddit_data._gemini_client
    spc,                \* "idle" | "ready" | "returned"
    sentiment,          \* return value of infer_sentiment
    score10,            \* sentiment_score, in tenths
    confidence2,        \* confidence, in halves
    llm_result,         \* result of infer_sentiment_llm ("unused" when not called)
    sentiment_calls,    \* calls of client.analyze_sentiment in this call
    \* ---- recency weighting: one calculate_recency_weight call -----------
    time_posted,        \* argument
    wpc,                \* "idle" | "ready" | "returned" | "raised"
    recency_weight,     \* return value, in tenths
    \* ---- review aggregation: one get_student_insights request ----------
    loader,             \* what the data loader gives on this request
    rpc,                \* "idle" | "ready" | "returned" | "raised"
    reviews,            \* return value of get_student_insights
    \* ---- generation prompt: the requested question count -----------------
    n_flags,            \* argument total_flags of _generate_with_llm
    ppc,                \* "idle" | "ready" | "built"
    expected,           \* the range after "Expected:" in the prompt
    \* ---- the process: threads calling the two get_gemini_client ----------
    gpc,                \* per thread: "idle" | "test" | "construct" | "assign" | "return"
    gmodule,            \* per thread: the module whose get_gemini_client runs ("none" outside)
    gclient,            \* per thread: the object GeminiClient() returned, until assigned
    constructed,        \* GeminiClient objects constructed by get_gemini_client
    served,             \* handles that get_gemini_client has returned so far
    \* ---- app.py: the overall assessment of one analysis request ----------
    apc,                \* "idle" | "ready" | "returned"
    assessment          \* return value of _calculate_overall_assessment

qvars == <<text_analysis, image_analysis, student_reviews, generator,
           qg_gemini_client, qpc, questions, tagged_flags, valid_flag_ids,
           validated, hallucination_count, should_fallback, path, gen_calls>>
svars == <<text, use_hybrid, classifier, mrd_gemini_client, spc, sentiment,
           score10, confidence2, llm_result, sentiment_calls>>
wvars == <<time_posted, wpc, recency_weight>>
rvars == <<loader, rpc, reviews>>
pvars == <<n_flags, ppc, expected>>
gvars == <<gpc, gmodule, gclient, constructed, served>>
avars == <<apc, assessment>>
vars == <<qvars, svars, wvars, rvars, pvars, gvars, avars>>

----------------------------------------------------------------------------
(* Bounds of the model *)
MaxRedFlags == 2
MaxCandidates == 3

----------------------------------------------------------------------------
(* Python values *)
PyList(s) == [py |-> "list", items |-> s]
PyNone == [py |-> "None"]
PyStr(s) == [py |-> "str", s |-> s]
IsDict(v) == "py" \notin DOMAIN v
IsList(v) == "py" \in DOMAIN v /\ v.py = "list"

\* dict.get(k, default)
Get(d, k, default) == IF k \in DOMAIN d THEN d[k] ELSE default

\* d[k] = v on a dict
SetKey(d, k, v) == [x \in DOMAIN d \cup {k} |-> IF x = k THEN v ELSE d[x]]

\* all sequences over S of length at most n
SeqUpTo(S, n) == UNION {[1..k -> S] : k \in 0..n}

Min(a, b) == IF a <= b THEN a ELSE b
Max(a, b) == IF a >= b THEN a ELSE b

\* s.startswith(p)
StartsWith(s, p) == Len(s) >= Len(p) /\ SubSeq(s, 1, Len(p)) = p

\* p in s  (substring containment)
Contains(s, p) ==
    \E i \in 1..(Len(s) - Len(p) + 1) : SubSeq(s, i, i + Len(p) - 1) = p

\* first position at which p occurs in s, 0 when it does not occur
IndexOf(s, p) ==
    IF Contains(s, p)
    THEN CHOOSE i \in 1..(Len(s) - Len(p) + 1) :
            /\ SubSeq(s, i, i + Len(p) - 1) = p
            /\ \A j \in 1..(i - 1) : SubSeq(s, j, j + Len(p) - 1) # p
    ELSE 0

\* sep.join(lines)
RECURSIVE Join(_, _)
Join(lines, sep) ==
    IF lines = <<>> THEN ""
    ELSE IF Len(lines) = 1 THEN lines[1]
    ELSE lines[1] \o sep \o Join(Tail(lines), sep)

----------------------------------------------------------------------------
(* question_generator.py *)

NoClient == "None"
Client == "GeminiClient"

\* the external service before it is asked anything
NotAsked == [construct_ok |-> TRUE, reply |-> [kind |-> "none"]]

\* number of negative comments that become student_concern flags ([:3])
StudentConcernCap == 3

\* the list stored under key, [] when the key is missing
SourceOf(d, key) == Get(d, key, PyList(<<>>))

\* enumerate(src) and item.get(...) succeed
Iterable(src) == IsList(src) /\ \A i \in 1..Len(src.items) : IsDict(src.items[i])

\* negative_concerns: the first three comments whose sentiment is negative
IsNegative(c) == Get(c, "sentiment", "") = "negative"
\* mutant: the slice [:3] is missing
NegativeConcerns_NoCap(comments) == SelectSeq(comments, IsNegative)

NegativeConcerns(comments) ==
    LET neg == SelectSeq(comments, IsNegative)
    IN  SubSeq(neg, 1, Min(StudentConcernCap, Len(neg)))

\* mutant: the ids of red flags are numbered from one
TextFlagId_OneBased(i) == "text_flag_" \o ToString(i + 1)

\* flag_id of the i-th item of each source
TextFlagId(i) == "text_flag_" \o ToString(i)
MissingInfoId(i) == "missing_info_" \o ToString(i)
PhotoIssueId(i) == "photo_issue_" \o ToString(i)
StudentConcernId(i) == "student_concern_" \o ToString(i)

TagRedFlag(i, flag) ==
    [id |-> TextFlagId(i),
     type |-> "red_flag",
     description |-> Get(flag, "flag", ""),
     severity |-> Get(flag, "severity", "medium"),
     reason |-> Get(flag, "reason", "")]

TagMissingInfo(i, info) ==
    [id |-> MissingInfoId(i),
     type |-> "missing_info",
     description |-> "Missing: " \o Get(info, "item", ""),
     severity |-> Get(info, "importance", "medium"),
     reason |-> Get(info, "why", "")]

TagPhotoIssue(i, issue) ==
    [id |-> PhotoIssueId(i),
     type |-> "photo_issue",
     description |-> Get(issue, "issue", ""),
     severity |-> Get(issue, "severity", "medium"),
     reason |-> Get(issue, "explanation", "")]

TagStudentConcern(i, concern) ==
    LET t == Get(concern, "text", "")
    IN  [id |-> StudentConcernId(i),
         type |-> "student_concern",
         description |-> "Student feedback: " \o Get(concern, "category", "general")
                            \o " concerns",
         severity |-> "medium",
         reason |-> SubSeq(t, 1, Min(100, Len(t)))]

\* _prepare_flags_with_ids: [raised, tagged_flags, valid_flag_ids]
PrepareFlagsWithIds(ta, ia, sr) ==
    LET red == SourceOf(ta, "red_flags")
        missing == SourceOf(ta, "missing_info")
        photo == SourceOf(ia, "photo_issues")
        comments == SourceOf(sr, "comments")
    IN  IF ~(Iterable(red) /\ Iterable(missing) /\ Iterable(photo) /\ Iterable(comments))
        THEN [raised |-> TRUE, tagged_flags |-> <<>>, valid_flag_ids |-> {}]
        ELSE LET concerns == NegativeConcerns(comments.items)
             IN  [raised |-> FALSE,
                  tagged_flags |->
                      [i \in 1..Len(red.items) |-> TagRedFlag(i - 1, red.items[i])]
                      \o [i \in 1..Len(missing.items) |->
                             TagMissingInfo(i - 1, missing.items[i])]
                      \o [i \in 1..Len(photo.items) |->
                             TagPhotoIssue(i - 1, photo.items[i])]
                      \o [i \in 1..Len(concerns) |->
                             TagStudentConcern(i - 1, concerns[i])],
                  valid_flag_ids |->
                      {TextFlagId(i - 1) : i \in 1..Len(red.items)}
                      \cup {MissingInfoId(i - 1) : i \in 1..Len(missing.items)}
                      \cup {PhotoIssueId(i - 1) : i \in 1..Len(photo.items)}
                      \cup {StudentConcernId(i - 1) : i \in 1..Len(concerns)}]

\* _generate_with_llm: [raised, client, calls, questions]
GenerateWithLlm(client, gen) ==
    IF client = NoClient /\ ~gen.construct_ok
    THEN [raised |-> TRUE, client |-> NoClient, calls |-> 0, questions |-> PyNone]
    ELSE IF gen.reply.kind = "error"
    THEN [raised |-> TRUE, client |-> Client, calls |-> 1, questions |-> PyNone]
    ELSE IF gen.reply.kind = "not_json"
    THEN [raised |-> TRUE, client |-> Client, calls |-> 1, questions |-> PyNone]
    ELSE IF ~IsDict(gen.reply.response)
    THEN [raised |-> TRUE, client |-> Client, calls |-> 1, questions |-> PyNone]
    ELSE [raised |-> FALSE, client |-> Client, calls |-> 1,
          questions |-> Get(gen.reply.response, "questions", PyList(<<>>))]

\* mutant: the last referenced id decides
DetermineCategory_LastId(flag_ids) ==
    IF flag_ids = <<>> THEN "general"
    ELSE LET last_id == flag_ids[Len(flag_ids)]
         IN  IF StartsWith(last_id, "text_flag") THEN "listing_description"
             ELSE IF StartsWith(last_id, "missing_info") THEN "missing_details"
             ELSE IF StartsWith(last_id, "photo_issue") THEN "photos"
             ELSE IF StartsWith(last_id, "student_concern") THEN "student_concerns"
             ELSE "general"

\* _determine_category
DetermineCategory(flag_ids) ==
    IF flag_ids = <<>> THEN "general"
    ELSE LET first_id == flag_ids[1]
         IN  IF StartsWith(first_id, "text_flag") THEN "listing_description"
             ELSE IF StartsWith(first_id, "missing_info") THEN "missing_details"
             ELSE IF StartsWith(first_id, "photo_issue") THEN "photos"
             ELSE IF StartsWith(first_id, "student_concern") THEN "student_concerns"
             ELSE "general"

\* mutant: only the first referenced id is looked up
AllIdsValid_First(referenced_ids, valid) ==
    referenced_ids = <<>> \/ referenced_ids[1] \in valid

\* mutant: a candidate passes as soon as one of its ids exists
AllIdsValid_Any(referenced_ids, valid) ==
    referenced_ids = <<>> \/ \E i \in 1..Len(referenced_ids) : referenced_ids[i] \in valid

\* all(flag_id in valid_flag_ids for flag_id in referenced_ids)
AllIdsValid(referenced_ids, valid) ==
    \A i \in 1..Len(referenced_ids) : referenced_ids[i] \in valid

\* the for loop of _validate_llm_output over qs, from accumulators (acc, h)
RECURSIVE ValidateLoop(_, _, _, _)
ValidateLoop(qs, valid, acc, h) ==
    IF qs = <<>> THEN [validated |-> acc, hallucination_count |-> h]
    ELSE LET q == Head(qs)
             referenced_ids == Get(q, "flag_ids", <<>>)
         IN  IF AllIdsValid(referenced_ids, valid)
             THEN ValidateLoop(Tail(qs), valid,
                     Append(acc, SetKey(q, "category", DetermineCategory(referenced_ids))),
                     h)
             ELSE ValidateLoop(Tail(qs), valid, acc, h + 1)

\* mutant: the coverage rule asks for three quarters of the flag count
FallbackDecision_ThreeQuarters(a, h, total_flags) ==
    IF a = 0 /\ total_flags > 0 THEN TRUE
    ELSE IF h > a THEN TRUE
    ELSE IF 4 * a < 3 * Max(1, total_flags) /\ total_flags >= 3 THEN TRUE
    ELSE FALSE

\* mutant: the rule for zero accepted questions is missing
FallbackDecision_NoEmptyRule(a, h, total_flags) ==
    IF h > a THEN TRUE
    ELSE IF 2 * a < Max(1, total_flags) /\ total_flags >= 3 THEN TRUE
    ELSE FALSE

\* mutant: as many rejections as acceptances already force the fallback
FallbackDecision_AtLeast(a, h, total_flags) ==
    IF a = 0 /\ total_flags > 0 THEN TRUE
    ELSE IF h >= a THEN TRUE
    ELSE IF 2 * a < Max(1, total_flags) /\ total_flags >= 3 THEN TRUE
    ELSE FALSE

\* the fallback decision of _validate_llm_output
FallbackDecision(a, h, total_flags) ==
    IF a = 0 /\ total_flags > 0 THEN TRUE
    ELSE IF h > a THEN TRUE
    \* coverage = a / max(1, total_flags); coverage < 0.5
    ELSE IF 2 * a < Max(1, total_flags) /\ total_flags >= 3 THEN TRUE
    ELSE FALSE

\* mutant: the accepted questions are returned last first
ValidateLlmOutput_Reversed(qs, valid, total_flags) ==
    IF ~Iterable(qs)
    THEN [raised |-> TRUE, questions |-> <<>>, should_fallback |-> FALSE,
          validated |-> <<>>, hallucination_count |-> 0]
    ELSE LET r == ValidateLoop(qs.items, valid, <<>>, 0)
             fb == FallbackDecision(Len(r.validated), r.hallucination_count, total_flags)
         IN  [raised |-> FALSE,
              questions |-> IF fb THEN <<>>
                            ELSE [i \in 1..Len(r.validated) |->
                                     r.validated[Len(r.validated) + 1 - i]],
              should_fallback |-> fb,
              validated |-> r.validated,
              hallucination_count |-> r.hallucination_count]

\* _validate_llm_output: [raised, questions, should_fallback, validated, hallucination_count]
ValidateLlmOutput(qs, valid, total_flags) ==
    IF ~Iterable(qs)
    THEN [raised |-> TRUE, questions |-> <<>>, should_fallback |-> FALSE,
          validated |-> <<>>, hallucination_count |-> 0]
    ELSE LET r == ValidateLoop(qs.items, valid, <<>>, 0)
             fb == FallbackDecision(Len(r.validated), r.hallucination_count, total_flags)
         IN  [raised |-> FALSE,
              questions |-> IF fb THEN <<>> ELSE r.validated,
              should_fallback |-> fb,
              validated |-> r.validated,
              hallucination_count |-> r.hallucination_count]

\* the bullet of the composite question ("•" in the source, "*" here)
Bullet == "  * "

WithSeverity(flags, s) == SelectSeq(flags, LAMBDA f : f.severity = s)
BulletLines(flags) == [i \in 1..Len(flags) |-> Bullet \o flags[i].description]

\* the `concerns` list of _generate_fallback_questions
Concerns(flags) ==
    LET high_priority == WithSeverity(flags, "high")
        medium_priority == WithSeverity(flags, "medium")
        low_priority == WithSeverity(flags, "low")
        c1 == IF high_priority # <<>>
              THEN <<"High Priority Issues:">> \o BulletLines(high_priority)
              ELSE <<>>
        c2 == IF medium_priority # <<>>
              THEN c1 \o (IF high_priority # <<>> THEN <<"">> ELSE <<>>)
                      \o <<"Additional Concerns:">> \o BulletLines(medium_priority)
              ELSE c1
        c3 == IF low_priority # <<>>
              THEN c2 \o (IF high_priority # <<>> \/ medium_priority # <<>>
                          THEN <<"">> ELSE <<>>)
                      \o <<"Other Items:">> \o BulletLines(low_priority)
              ELSE c2
    IN  c3

\* _generate_fallback_questions
GenerateFallbackQuestions(flags) ==
    IF Len(flags) = 0 THEN <<>>
    ELSE << [question |->
                "I reviewed the listing and noticed the following points I'd like to address:\n\n"
                \o Join(Concerns(flags), "\n")
                \o "\n\nCould you please provide clarification on each of these items?",
             priority |-> IF WithSeverity(flags, "high") # <<>> THEN "high" ELSE "medium",
             category |-> "comprehensive_review",
             reason |-> ToString(Len(flags))
                        \o " concerns identified during listing analysis"] >>

\* mutant: the empty check is missing
NoFlags_Never(total_flags) == FALSE

\* the `if total_flags == 0` test of generate_questions
NoFlags(total_flags) == total_flags = 0

\* mutant: the except clause returns an empty list instead of falling through
TryLlmGeneration_EmptyOnError(valid, total_flags, client, gen) ==
    LET llm == GenerateWithLlm(client, gen)
        v == ValidateLlmOutput(llm.questions, valid, total_flags)
        caught == [outcome |-> "return", path |-> "fallback_error",
                   questions |-> <<>>, client |-> llm.client, calls |-> llm.calls,
                   validated |-> <<>>, hallucination_count |-> 0,
                   should_fallback |-> FALSE]
    IN  IF llm.raised THEN caught
        ELSE IF v.raised THEN caught
        ELSE IF ~v.should_fallback
        THEN [caught EXCEPT !.path = "llm",
                            !.questions = v.questions,
                            !.validated = v.validated,
                            !.hallucination_count = v.hallucination_count]
        ELSE [caught EXCEPT !.outcome = "fallthrough",
                            !.path = "fallback_validation",
                            !.validated = v.validated,
                            !.hallucination_count = v.hallucination_count,
                            !.should_fallback = TRUE]

\* the try block of generate_questions together with its except clause:
\* outcome "return" is the return inside the try, "fallthrough" leaves the
\* try statement (validation asked for the fallback, or an exception was caught)
TryLlmGeneration(valid, total_flags, client, gen) ==
    LET llm == GenerateWithLlm(client, gen)
        v == ValidateLlmOutput(llm.questions, valid, total_flags)
        caught == [outcome |-> "fallthrough", path |-> "fallback_error",
                   questions |-> <<>>, client |-> llm.client, calls |-> llm.calls,
                   validated |-> <<>>, hallucination_count |-> 0,
                   should_fallback |-> FALSE]
    IN  IF llm.raised THEN caught
        ELSE IF v.raised THEN caught
        ELSE IF ~v.should_fallback
        THEN [caught EXCEPT !.outcome = "return", !.path = "llm",
                            !.questions = v.questions,
                            !.validated = v.validated,
                            !.hallucination_count = v.hallucination_count]
        ELSE [caught EXCEPT !.path = "fallback_validation",
                            !.validated = v.validated,
                            !.hallucination_count = v.hallucination_count,
                            !.should_fallback = TRUE]

\* generate_questions
GenerateQuestions(ta, ia, sr, gen, client) ==
    LET prep == PrepareFlagsWithIds(ta, ia, sr)
        total_flags == Len(prep.tagged_flags)
        base == [raised |-> FALSE, questions |-> <<>>, client |-> client,
                 tagged_flags |-> prep.tagged_flags,
                 valid_flag_ids |-> prep.valid_flag_ids,
                 validated |-> <<>>, hallucination_count |-> 0,
                 should_fallback |-> FALSE, path |-> "none", calls |-> 0]
    IN  IF prep.raised
        THEN [base EXCEPT !.raised = TRUE, !.path = "raised"]
        ELSE IF NoFlags(total_flags)
        THEN [base EXCEPT !.path = "empty"]
        ELSE LET t == TryLlmGeneration(prep.valid_flag_ids, total_flags, client, gen)
             IN  [base EXCEPT
                     !.questions = IF t.outcome = "return" THEN t.questions
                                   ELSE GenerateFallbackQuestions(prep.tagged_flags),
                     !.client = t.client,
                     !.calls = t.calls,
                     !.validated = t.validated,
                     !.hallucination_count = t.hallucination_count,
                     !.should_fallback = t.should_fallback,
                     !.path = t.path]

----------------------------------------------------------------------------
(* Inputs of the question pipeline *)

RedFlagPool ==
    { [flag |-> "Vague language about property condition"],
      [flag |-> "Sold as-is", severity |-> "critical", reason |-> "No explanation"],
      PyStr("Pressure tactics") }

RedFlagValues == {PyNone} \cup {PyList(s) : s \in SeqUpTo(RedFlagPool, MaxRedFlags)}

MissingInfoValues ==
    { PyList(<<>>),
      PyList(<< [item |-> "Lease terms", importance |-> "low",
                 why |-> "Essential information"] >>) }

TextAnalyses ==
    {[missing_info |-> m] : m \in MissingInfoValues}
    \cup {[red_flags |-> r, missing_info |-> m] :
             r \in RedFlagValues, m \in MissingInfoValues}

ImageAnalyses ==
    { [photo_issues |-> PyList(<<>>), quality_score |-> 0],
      [photo_issues |-> PyList(<< [issue |-> "Wide angle lens distortion",
                                   severity |-> "high",
                                   explanation |-> "Room may appear larger"] >>),
       quality_score |-> 5] }

StudentReviews ==
    { [comments |-> PyList(<<>>), overall_score |-> 0],
      [comments |-> PyList(<< [text |-> "Great location", category |-> "location",
                               sentiment |-> "positive"],
                              [text |-> "Walls are paper thin", category |-> "noise",
                               sentiment |-> "negative"] >>),
       overall_score |-> 3] }

CandidatePool ==
    { [question |-> "What is the exact monthly rent amount?",
       flag_ids |-> <<"text_flag_0">>, priority |-> "high"],
      [question |-> "Which lease terms apply, and what condition is the unit in?",
       flag_ids |-> <<"missing_info_0", "text_flag_0">>, priority |-> "high"],
      [question |-> "Is there a gym?",
       flag_ids |-> <<"amenity_gym">>, priority |-> "low"],
      [question |-> "Is there anything else I should know?", priority |-> "low"],
      [flag_ids |-> <<"missing_info_0">>, priority |-> "medium"] }

JsonResponses ==
    { PyList(<<>>),
      [summary |-> "No questions"],
      [questions |-> PyNone],
      [questions |-> PyList(<<PyStr("What is the rent?")>>)] }
    \cup {[questions |-> PyList(cs)] : cs \in SeqUpTo(CandidatePool, MaxCandidates)}

Generators ==
    { [construct_ok |-> FALSE, reply |-> [kind |-> "error"]],
      [construct_ok |-> TRUE, reply |-> [kind |-> "error"]],
      [construct_ok |-> TRUE, reply |-> [kind |-> "not_json"]] }
    \cup {[construct_ok |-> TRUE, reply |-> [kind |-> "json", response |-> r]] :
             r \in JsonResponses}

----------------------------------------------------------------------------
(* State machine of the question pipeline *)

QIdle ==
    /\ text_analysis = [missing_info |-> PyList(<<>>)]
    /\ image_analysis = [photo_issues |-> PyList(<<>>), quality_score |-> 0]
    /\ student_reviews = [comments |-> PyList(<<>>), overall_score |-> 0]
    /\ generator = NotAsked
    /\ qg_gemini_client = NoClient
    /\ qpc = "idle"
    /\ questions = <<>>
    /\ tagged_flags = <<>>
    /\ valid_flag_ids = {}
    /\ validated = <<>>
    /\ hallucination_count = 0
    /\ should_fallback = FALSE
    /\ path = "none"
    /\ gen_calls = 0

QInit ==
    /\ text_analysis \in TextAnalyses
    /\ image_analysis \in ImageAnalyses
    /\ student_reviews \in StudentReviews
    /\ generator = NotAsked
    /\ qg_gemini_client = NoClient
    /\ qpc = "ready"
    /\ questions = <<>>
    /\ tagged_flags = <<>>
    /\ valid_flag_ids = {}
    /\ validated = <<>>
    /\ hallucination_count = 0
    /\ should_fallback = FALSE
    /\ path = "none"
    /\ gen_calls = 0

\* one call of generate_questions(text_analysis, image_analysis, student_reviews)
CallGenerateQuestions ==
    /\ qpc = "ready"
    /\ \E gen \in Generators :
          \E r \in {GenerateQuestions(text_analysis, image_analysis, student_reviews,
                                       gen, qg_gemini_client)} :
              /\ generator' = gen
              /\ qpc' = IF r.raised THEN "raised" ELSE "returned"
              /\ questions' = r.questions
              /\ tagged_flags' = r.tagged_flags
              /\ valid_flag_ids' = r.valid_flag_ids
              /\ validated' = r.validated
              /\ hallucination_count' = r.hallucination_count
              /\ should_fallback' = r.should_fallback
              /\ path' = r.path
              /\ gen_calls' = r.calls
              /\ qg_gemini_client' = r.client
    /\ UNCHANGED <<text_analysis, image_analysis, student_reviews>>
    /\ UNCHANGED <<svars, wvars, rvars, pvars, gvars, avars>>

----------------------------------------------------------------------------
(* Inputs and state machine of flag tagging (_prepare_flags_with_ids alone) *)

MaxConcernComments == 4

ConcernCommentPool ==
    { [text |-> "Walls are paper thin", category |-> "noise", sentiment |-> "negative"],
      [text |-> "Landlord never answers", sentiment |-> "negative"],
      [text |-> "Great location", category |-> "location", sentiment |-> "positive"] }

TaggingStudentReviews ==
    {[comments |-> PyList(cs), overall_score |-> 3] :
        cs \in SeqUpTo(ConcernCommentPool, MaxConcernComments)}

TInit ==
    /\ text_analysis \in TextAnalyses
    /\ image_analysis \in ImageAnalyses
    /\ student_reviews \in TaggingStudentReviews
    /\ generator = NotAsked
    /\ qg_gemini_client = NoClient
    /\ qpc = "ready"
    /\ questions = <<>>
    /\ tagged_flags = <<>>
    /\ valid_flag_ids = {}
    /\ validated = <<>>
    /\ hallucination_count = 0
    /\ should_fallback = FALSE
    /\ path = "none"
    /\ gen_calls = 0

\* one call of _prepare_flags_with_ids(text_analysis, image_analysis, student_reviews)
CallPrepareFlagsWithIds ==
    /\ qpc = "ready"
    /\ \E r \in {PrepareFlagsWithIds(text_analysis, image_analysis, student_reviews)} :
          /\ qpc' = IF r.raised THEN "raised" ELSE "tagged"
          /\ tagged_flags' = r.tagged_flags
          /\ valid_flag_ids' = r.valid_flag_ids
    /\ UNCHANGED <<text_analysis, image_analysis, student_reviews, generator,
                   qg_gemini_client, questions, validated, hallucination_count,
                   should_fallback, path, gen_calls>>
    /\ UNCHANGED <<svars, wvars, rvars, pvars, gvars, avars>>

----------------------------------------------------------------------------
(* Inputs and state machine of validation (_prepare_flags_with_ids, then   *)
(* _validate_llm_output on one candidate, as generate_questions calls them) *)

MaxFlagIds == 2

ReferencedIdPool ==
    {"text_flag_0", "missing_info_0", "photo_issue_0", "student_concern_0",
     "amenity_gym"}

\* candidates of the generation service: with and without a flag_ids list
ValidationCandidates ==
    {[question |-> "Is there anything else I should know?", priority |-> "low"]}
    \cup {[question |-> "Can you tell me more about this?", flag_ids |-> ids,
           priority |-> "medium"] : ids \in SeqUpTo(ReferencedIdPool, MaxFlagIds)}

\* _validate_llm_output(llm_questions, valid_flag_ids, total_flags) after
\* _generate_with_llm returned the one-candidate list [q]
CallValidateLlmOutput ==
    /\ qpc = "tagged"
    /\ ~NoFlags(Len(tagged_flags))
    /\ \E q \in ValidationCandidates :
          \E v \in {ValidateLlmOutput(PyList(<<q>>), valid_flag_ids, Len(tagged_flags))} :
              /\ generator' = [construct_ok |-> TRUE,
                               reply |-> [kind |-> "json",
                                          response |-> [questions |-> PyList(<<q>>)]]]
              /\ qpc' = IF v.raised THEN "raised" ELSE "validated"
              /\ validated' = v.validated
              /\ hallucination_count' = v.hallucination_count
              /\ should_fallback' = v.should_fallback
    /\ UNCHANGED <<text_analysis, image_analysis, student_reviews, qg_gemini_client,
                   questions, tagged_flags, valid_flag_ids, path, gen_calls>>
    /\ UNCHANGED <<svars, wvars, rvars, pvars, gvars, avars>>

----------------------------------------------------------------------------
(* mock_reddit_data.py: infer_sentiment_llm and infer_sentiment *)

UpperCase == "ABCDEFGHIJKLMNOPQRSTUVWXYZ"
LowerCase == "abcdefghijklmnopqrstuvwxyz"

\* the lower-case letter of every upper-case letter
LowerOf ==
    [c \in {SubSeq(UpperCase, i, i) : i \in 1..Len(UpperCase)} |->
        LET i == CHOOSE i \in 1..Len(UpperCase) : SubSeq(UpperCase, i, i) = c
        IN  SubSeq(LowerCase, i, i)]

LowerChar(c) == IF c \in DOMAIN LowerOf THEN LowerOf[c] ELSE c

\* s.lower()
RECURSIVE Lower(_)
Lower(s) ==
    IF s = "" THEN "" ELSE LowerChar(SubSeq(s, 1, 1)) \o Lower(SubSeq(s, 2, Len(s)))

IsSpace(c) == c \in {" ", "\n", "\t", "\r"}

\* s.strip()
RECURSIVE LStrip(_)
LStrip(s) ==
    IF s # "" /\ IsSpace(SubSeq(s, 1, 1)) THEN LStrip(SubSeq(s, 2, Len(s))) ELSE s
RECURSIVE RStrip(_)
RStrip(s) ==
    IF s # "" /\ IsSpace(SubSeq(s, Len(s), Len(s)))
    THEN RStrip(SubSeq(s, 1, Len(s) - 1)) ELSE s
Strip(s) == LStrip(RStrip(s))

\* s.split()[0] for a stripped, non-empty s
FirstWord(s) ==
    LET spaces == {i \in 1..Len(s) : IsSpace(SubSeq(s, i, i))}
    IN  IF spaces = {} THEN s
        ELSE SubSeq(s, 1, (CHOOSE i \in spaces : \A j \in spaces : i <= j) - 1)

Labels == {"positive", "negative", "neutral"}

\* the label infer_sentiment_llm reads from the response of the service
ParseSentiment(response) ==
    LET s == Lower(Strip(response))
        first_word == IF s # "" THEN FirstWord(s) ELSE "unknown"
    IN  IF first_word \in Labels THEN first_word
        ELSE IF Contains(s, "positive") THEN "positive"
        ELSE IF Contains(s, "negative") THEN "negative"
        ELSE "unknown"

\* mutant: a failed call is repeated once before giving up
InferSentimentLlm_Retry(client, cls) ==
    IF client = NoClient /\ ~cls.construct_ok
    THEN [result |-> "unknown", client |-> NoClient, calls |-> 0]
    ELSE IF cls.reply.kind = "error"
    THEN [result |-> "unknown", client |-> Client, calls |-> 2]
    ELSE [result |-> ParseSentiment(cls.reply.text), client |-> Client, calls |-> 1]

\* infer_sentiment_llm: [result, client, calls]; every exception gives "unknown"
InferSentimentLlm(client, cls) ==
    IF client = NoClient /\ ~cls.construct_ok
    THEN [result |-> "unknown", client |-> NoClient, calls |-> 0]
    ELSE IF cls.reply.kind = "error"
    THEN [result |-> "unknown", client |-> Client, calls |-> 1]
    ELSE [result |-> ParseSentiment(cls.reply.text), client |-> Client, calls |-> 1]

college_negative ==
    <<"sketchy", "loud parties", "thin walls", "far from campus",
      "overpriced", "landlord sucks", "avoid", "scam", "dirty",
      "roaches", "mold", "broken ac", "parking nightmare">>

college_positive ==
    <<"close to campus", "quiet", "great location", "worth it",
      "responsive landlord", "clean", "spacious", "good deal",
      "highly recommend", "love living here", "clutch">>

strong_negative ==
    <<"worst", "terrible", "awful", "disgusting", "avoid", "nightmare",
      "scam", "shady", "broken", "horrible", "trash", "sucks", "hate",
      "miserable", "brutal", "never again", "rip off">>

negative ==
    <<"bad", "issue", "problem", "annoying", "inconvenient", "sketchy",
      "loud", "noisy", "far", "expensive", "old", "small",
      "complaint", "disappointing", "meh", "mediocre">>

strong_positive ==
    <<"best", "amazing", "perfect", "excellent", "love", "great",
      "wonderful", "fantastic", "highly recommend", "awesome", "clutch",
      "gem", "steal", "couldn't be happier">>

positive ==
    <<"good", "nice", "clean", "safe", "convenient", "happy", "worth",
      "solid", "recommend", "impressed", "comfortable", "spacious",
      "decent", "satisfied">>

negations == <<"not", "no", "never", "don't", "didn't", "won't", "barely">>

\* mutant: every occurrence of an entry counts
CountHits_Occurrences(entries, text_lower) ==
    Cardinality({<<i, k>> \in (1..Len(entries)) \X (1..Len(text_lower)) :
                    /\ k + Len(entries[i]) - 1 <= Len(text_lower)
                    /\ SubSeq(text_lower, k, k + Len(entries[i]) - 1) = entries[i]})

\* sum(1 for phrase in entries if phrase in text_lower)
CountHits(entries, text_lower) ==
    Cardinality({i \in 1..Len(entries) : Contains(text_lower, entries[i])})

\* mutant: a negation reverses the sign of the score
Score_Flip(t) ==
    LET text_lower == Lower(t)
        negation_count == CountHits(negations, text_lower)
        raw == (CountHits(college_positive, text_lower) * 3)
               + (CountHits(strong_positive, text_lower) * 2)
               + CountHits(positive, text_lower)
               - (CountHits(college_negative, text_lower) * 3)
               - (CountHits(strong_negative, text_lower) * 2)
               - CountHits(negative, text_lower)
        total_signals == CountHits(college_positive, text_lower)
                         + CountHits(college_negative, text_lower)
                         + CountHits(strong_positive, text_lower)
                         + CountHits(strong_negative, text_lower)
                         + CountHits(positive, text_lower)
                         + CountHits(negative, text_lower)
    IN  [raw |-> raw,
         negation_count |-> negation_count,
         total_signals |-> total_signals,
         score10 |-> IF negation_count > 0 THEN raw * (0 - 7) ELSE raw * 10,
         confidence2 |-> 2 * total_signals
                         - (IF negation_count > 0 THEN negation_count ELSE 0)]

\* the counts, sentiment_score (in tenths) and confidence (in halves)
Score(t) ==
    LET text_lower == Lower(t)
        college_neg_count == CountHits(college_negative, text_lower)
        college_pos_count == CountHits(college_positive, text_lower)
        strong_neg_count == CountHits(strong_negative, text_lower)
        neg_count == CountHits(negative, text_lower)
        strong_pos_count == CountHits(strong_positive, text_lower)
        pos_count == CountHits(positive, text_lower)
        negation_count == CountHits(negations, text_lower)
        raw == (college_pos_count * 3) + (strong_pos_count * 2) + pos_count
               - (college_neg_count * 3) - (strong_neg_count * 2) - neg_count
        total_signals == college_pos_count + college_neg_count + strong_pos_count
                         + strong_neg_count + pos_count + neg_count
    IN  [raw |-> raw,
         negation_count |-> negation_count,
         total_signals |-> total_signals,
         \* sentiment_score *= 0.7 when a negation is present
         score10 |-> IF negation_count > 0 THEN raw * 7 ELSE raw * 10,
         \* confidence = total_signals - negation_count * 0.5
         confidence2 |-> 2 * total_signals
                         - (IF negation_count > 0 THEN negation_count ELSE 0)]

\* mutant: the obvious-case thresholds are strict
Tier1_Strict(s10) ==
    IF s10 > 30 THEN "positive" ELSE IF s10 < -30 THEN "negative" ELSE "undecided"

\* tier 1: sentiment_score >= 3 / sentiment_score <= -3
Tier1(s10) ==
    IF s10 >= 30 THEN "positive" ELSE IF s10 <= -30 THEN "negative" ELSE "undecided"

\* mutant: the external classifier is consulted for every confidence
Borderline_Always(hybrid, c2) == hybrid

\* tier 2 is entered: use_hybrid and confidence < 2
Borderline(hybrid, c2) == hybrid /\ c2 < 4

\* mutant: the moderate thresholds are strict
Tier3_Strict(s10) ==
    IF s10 > 10 THEN "positive" ELSE IF s10 < -10 THEN "negative" ELSE "neutral"

\* tier 3: sentiment_score >= 1 / sentiment_score <= -1 / otherwise
Tier3(s10) ==
    IF s10 >= 10 THEN "positive" ELSE IF s10 <= -10 THEN "negative" ELSE "neutral"

\* infer_sentiment, from the scores sc = Score(text) on:
\* [sentiment, score10, confidence2, llm_result, client, calls]
InferSentiment(sc, hybrid, cls, client) ==
    LET base == [sentiment |-> Tier1(sc.score10), score10 |-> sc.score10,
                 confidence2 |-> sc.confidence2, llm_result |-> "unused",
                 client |-> client, calls |-> 0]
    IN  IF Tier1(sc.score10) # "undecided" THEN base
        ELSE IF Borderline(hybrid, sc.confidence2)
        THEN LET llm == InferSentimentLlm(client, cls)
             IN  [base EXCEPT !.sentiment = IF llm.result # "unknown" THEN llm.result
                                            ELSE Tier3(sc.score10),
                              !.llm_result = llm.result,
                              !.client = llm.client,
                              !.calls = llm.calls]
        ELSE [base EXCEPT !.sentiment = Tier3(sc.score10)]

----------------------------------------------------------------------------
(* Inputs of the sentiment classifier *)

MaxPhrases == 2

PhrasePool ==
    { "Great location", "thin walls", "nice", "bad", "not", "AVOID",
      "clean", "never again", "the lease starts in August" }

Texts == {Join(ps, " ") : ps \in SeqUpTo(PhrasePool, MaxPhrases)}

ResponsePool ==
    { "positive", "Negative", " NEUTRAL\n", "negative - the walls are thin",
      "Positive.", "The sentiment is negative", "not positive, rather negative",
      "It is neutral", "mixed", "", "negative\nthin walls" }

Classifiers ==
    { [construct_ok |-> FALSE, reply |-> [kind |-> "error"]],
      [construct_ok |-> TRUE, reply |-> [kind |-> "error"]] }
    \cup {[construct_ok |-> TRUE, reply |-> [kind |-> "text", text |-> r]] :
             r \in ResponsePool}

----------------------------------------------------------------------------
(* State machine of the sentiment classifier *)

SIdle ==
    /\ text = ""
    /\ use_hybrid = TRUE
    /\ classifier = NotAsked
    /\ mrd_gemini_client = NoClient
    /\ spc = "idle"
    /\ sentiment = "none"
    /\ score10 = 0
    /\ confidence2 = 0
    /\ llm_result = "unused"
    /\ sentiment_calls = 0

SInit ==
    /\ text \in Texts
    /\ use_hybrid \in BOOLEAN
    /\ classifier = NotAsked
    /\ mrd_gemini_client = NoClient
    /\ spc = "ready"
    /\ sentiment = "none"
    /\ score10 = 0
    /\ confidence2 = 0
    /\ llm_result = "unused"
    /\ sentiment_calls = 0

\* one call of infer_sentiment(text, use_hybrid)
CallInferSentiment ==
    /\ spc = "ready"
    /\ \E sc \in {Score(text)} : \E cls \in Classifiers :
          \E r \in {InferSentiment(sc, use_hybrid, cls, mrd_gemini_client)} :
                  /\ classifier' = cls
                  /\ spc' = "returned"
                  /\ sentiment' = r.sentiment
                  /\ score10' = r.score10
                  /\ confidence2' = r.confidence2
                  /\ llm_result' = r.llm_result
                  /\ sentiment_calls' = r.calls
                  /\ mrd_gemini_client' = r.client
    /\ UNCHANGED <<text, use_hybrid>>
    /\ UNCHANGED <<qvars, wvars, rvars, pvars, gvars, avars>>

----------------------------------------------------------------------------
(* mock_reddit_data.py: calculate_recency_weight *)

Digits == "0123456789"

IsDigit(c) == \E i \in 1..Len(Digits) : SubSeq(Digits, i, i) = c

\* int(c) for a digit c
DigitValue(c) == (CHOOSE i \in 1..Len(Digits) : SubSeq(Digits, i, i) = c) - 1

\* the month field of "%m": 1[0-2] | 0[1-9] | [1-9], 0 when s is none of them
ParseMonth(s) ==
    IF Len(s) = 2 /\ SubSeq(s, 1, 1) = "1" /\ SubSeq(s, 2, 2) \in {"0", "1", "2"}
    THEN 10 + DigitValue(SubSeq(s, 2, 2))
    ELSE IF Len(s) = 2 /\ SubSeq(s, 1, 1) = "0" /\ IsDigit(SubSeq(s, 2, 2))
            /\ SubSeq(s, 2, 2) # "0"
    THEN DigitValue(SubSeq(s, 2, 2))
    ELSE IF Len(s) = 1 /\ IsDigit(s) /\ s # "0"
    THEN DigitValue(s)
    ELSE 0

\* datetime.strptime(v, "%Y-%m"): [ok, year, month]; ok is FALSE where
\* strptime raises (v is not a str, the text does not match four digits, a
\* dash and a month with nothing left over, or the year is 0)
ParseYearMonth(v) ==
    LET failed == [ok |-> FALSE, year |-> 0, month |-> 0]
    IN  IF ~("py" \in DOMAIN v /\ v.py = "str") THEN failed
        ELSE LET s == v.s
             IN  IF ~(Len(s) \in {6, 7}) THEN failed
                 ELSE IF ~(\A i \in 1..4 : IsDigit(SubSeq(s, i, i))) THEN failed
                 ELSE IF SubSeq(s, 5, 5) # "-" THEN failed
                 ELSE LET year == DigitValue(SubSeq(s, 1, 1)) * 1000
                                  + DigitValue(SubSeq(s, 2, 2)) * 100
                                  + DigitValue(SubSeq(s, 3, 3)) * 10
                                  + DigitValue(SubSeq(s, 4, 4))
                          month == ParseMonth(SubSeq(s, 6, Len(s)))
                      IN  IF month = 0 \/ year = 0 THEN failed
                          ELSE [ok |-> TRUE, year |-> year, month |-> month]

\* current_date = datetime(2025, 1, 1)
ReferenceYear == 2025
ReferenceMonth == 1

\* mutant: the two-month bucket excludes its boundary
RecencyBucket_Strict(months_old) ==
    IF months_old < 2 THEN 15
    ELSE IF months_old <= 6 THEN 12
    ELSE IF months_old <= 12 THEN 10
    ELSE 7

\* the if/elif chain over months_old; weights in tenths
RecencyBucket(months_old) ==
    IF months_old <= 2 THEN 15
    ELSE IF months_old <= 6 THEN 12
    ELSE IF months_old <= 12 THEN 10
    ELSE 7

\* calculate_recency_weight, in tenths; 10 on every exception
CalculateRecencyWeight(v) ==
    LET d == ParseYearMonth(v)
    IN  IF ~d.ok THEN 10
        ELSE RecencyBucket((ReferenceYear - d.year) * 12 + (ReferenceMonth - d.month))

----------------------------------------------------------------------------
(* IEEE-754 binary64 arithmetic on recency weights.                         *)
(* A double x is the record [t, e] with x = (t * 2^53 + e) / (10 * 2^53):   *)
(* t is the value in tenths, e the rounding error.  Every quantity below    *)
(* stays a small integer.  Sums are below 32.0.                             *)

Dbl(t, e) == [t |-> t, e |-> e]

\* the int 0 that sum() starts from
DblZero == Dbl(0, 0)

\* the literals 1.5, 1.2, 1.0 and 0.7 as doubles (1.2 and 0.7 are inexact)
DoubleOfWeight(w10) ==
    CASE w10 = 15 -> Dbl(15, 0)
      [] w10 = 12 -> Dbl(12, -4)
      [] w10 = 10 -> Dbl(10, 0)
      [] w10 = 7 -> Dbl(7, -4)

\* x > y, x >= y
FGreater(x, y) == x.t > y.t \/ (x.t = y.t /\ x.e > y.e)
FAtLeast(x, y) == x.t > y.t \/ (x.t = y.t /\ x.e >= y.e)

\* the spacing of doubles around the real x, in units of 2^-53
Ulp(x) ==
    IF ~FAtLeast(x, Dbl(10, 0)) THEN 1
    ELSE IF ~FAtLeast(x, Dbl(20, 0)) THEN 2
    ELSE IF ~FAtLeast(x, Dbl(40, 0)) THEN 4
    ELSE IF ~FAtLeast(x, Dbl(80, 0)) THEN 8
    ELSE IF ~FAtLeast(x, Dbl(160, 0)) THEN 16
    ELSE 32

\* (x * 2^53) mod m for m dividing 64; 2^53 = 512 (mod 640)
UnitsMod(x, m) == ((((x.t * 512) + x.e) % 640) \div 10) % m

\* x + y rounded to the nearest double, ties to even
FAdd(x, y) ==
    LET z == Dbl(x.t + y.t, x.e + y.e)
        u == Ulp(z)
        r == UnitsMod(z, u)
        d == IF 2 * r < u THEN 0 - r
             ELSE IF 2 * r > u THEN u - r
             ELSE IF UnitsMod(z, 2 * u) = r THEN 0 - r
             ELSE u - r
    IN  IF z.t = 0 THEN DblZero ELSE Dbl(z.t, z.e + (10 * d))

\* sum(ws): left to right from 0
RECURSIVE FSumFrom(_, _)
FSumFrom(acc, ws) ==
    IF ws = <<>> THEN acc ELSE FSumFrom(FAdd(acc, DoubleOfWeight(Head(ws))), Tail(ws))
FSum(ws) == FSumFrom(DblZero, ws)

\* 2^k mod m
RECURSIVE Pow2Mod(_, _)
Pow2Mod(k, m) == IF k = 0 THEN 1 % m ELSE (2 * Pow2Mod(k - 1, m)) % m

\* 2^k
RECURSIVE Pow2(_)
Pow2(k) == IF k = 0 THEN 1 ELSE 2 * Pow2(k - 1)

\* (hi1 * 2^53 + lo1) < (hi2 * 2^53 + lo2) for small lo1, lo2
LexLess(hi1, lo1, hi2, lo2) == hi1 < hi2 \/ (hi1 = hi2 /\ lo1 < lo2)

\* the j with 2^-j <= x / y < 2^-(j-1), for 0 < x <= y
RECURSIVE BinadeFrom(_, _, _)
BinadeFrom(j, x, y) ==
    IF FAtLeast(Dbl(x.t * Pow2(j), x.e * Pow2(j)), y) THEN j
    ELSE BinadeFrom(j + 1, x, y)
Binade(x, y) == BinadeFrom(0, x, y)

\* bit 0 of floor(x.t * 2^K / y.t)
QuotientBit(x, y, K) == IF ((x.t * Pow2Mod(K, 2 * y.t)) % (2 * y.t)) >= y.t THEN 1 ELSE 0

\* x / y rounded to the nearest double (ties to even), for 0 < x <= y:
\* [K, n] stands for (floor(x.t * 2^K / y.t) + n) * 2^-K.  With
\* r = x.t * 2^K mod y.t, the part of x/y * 2^K beyond floor(x.t * 2^K / y.t)
\* is (A * 2^53 + B) / (D1 * 2^53 + D0).

\* the largest n with n * (D1 * 2^53 + D0) <= A * 2^53 + B
FloorQuotient(A, B, D1, D0) ==
    IF LexLess(A, B, (A \div D1) * D1, (A \div D1) * D0) THEN (A \div D1) - 1
    ELSE A \div D1

\* 1 when the remainder beyond n rounds up (ties to even), else 0
RoundsUp(A, B, D1, D0, n, qbit) ==
    IF LexLess(2 * (A - (n * D1)), 2 * (B - (n * D0)), D1, D0) THEN 0
    ELSE IF LexLess(D1, D0, 2 * (A - (n * D1)), 2 * (B - (n * D0))) THEN 1
    ELSE (qbit + n) % 2

FDivRound(K, A, B, D1, D0, n, qbit) ==
    [K |-> K, n |-> n + RoundsUp(A, B, D1, D0, n, qbit)]

FDivFrac(K, A, B, D1, D0, qbit) ==
    FDivRound(K, A, B, D1, D0, FloorQuotient(A, B, D1, D0), qbit)

FDivRem(x, y, j, r) ==
    FDivFrac(j + 52,
             (2 * r * y.t) + (((x.e * y.t) - (x.t * y.e)) * Pow2(j)),
             2 * r * y.e,
             2 * y.t * y.t,
             2 * y.t * y.e,
             QuotientBit(x, y, j + 52))

FDivIn(x, y, j) == FDivRem(x, y, j, (x.t * Pow2Mod(j + 52, 2 * y.t)) % y.t)

FDiv(x, y) == FDivIn(x, y, Binade(x, y))

\* [K, n] of FDiv(x, y) rewritten for the finer grid 2^-K2, K2 >= K
RECURSIVE Refine(_, _, _, _)
Refine(q, x, y, K2) ==
    IF q.K >= K2 THEN q
    ELSE Refine([K |-> q.K + 1, n |-> (2 * q.n) - QuotientBit(x, y, q.K + 1)], x, y, K2)

\* x / y > 0.5 in doubles: the quotient rounds to more than 0.5 exactly when
\* 2x > y (0.5 is a double and 2x - y is a multiple of the spacing at y)
RatioAboveHalf(x, y) == FGreater(Dbl(2 * x.t, 2 * x.e), y)

\* qx > qz for quotients qx of x / y and qz of z / y, x.t = z.t
QuotientGreater(qx, qz, x, z, y) ==
    Refine(qx, x, y, Max(qx.K, qz.K)).n > Refine(qz, z, y, Max(qx.K, qz.K)).n

\* x / y > z / y in doubles, for 0 <= x, z <= y, y > 0
RatioGreater(x, z, y) ==
    IF x.t # z.t THEN x.t > z.t
    ELSE IF x = z \/ x.t = 0 THEN FALSE
    ELSE QuotientGreater(FDiv(x, y), FDiv(z, y), x, z, y)

----------------------------------------------------------------------------
(* Inputs of the recency weighting *)

MaxYearsBack == 2

YearTexts == {ToString(y) : y \in (ReferenceYear - MaxYearsBack)..(ReferenceYear + 1)}
            \cup {"0000"}

MonthTexts ==
    {"00", "01", "02", "03", "04", "05", "06", "07", "08", "09", "10", "11",
     "12", "13", "1", "2", "3", "4", "5", "6", "7", "8", "9", "0"}

TimePostedValues ==
    {PyStr(y \o "-" \o m) : y \in YearTexts, m \in MonthTexts}
    \cup {PyStr(s) : s \in {"unknown", "", "2024", "2024-", "24-11", "2024/11",
                            "2024-11-05", " 2024-11", "2024-11 ", "Nov 2024",
                            "2024-111"}}
    \cup {PyNone}

----------------------------------------------------------------------------
(* State machine of the recency weighting *)

WIdle ==
    /\ time_posted = PyNone
    /\ wpc = "idle"
    /\ recency_weight = 0

WInit ==
    /\ time_posted \in TimePostedValues
    /\ wpc = "ready"
    /\ recency_weight = 0

\* one call of calculate_recency_weight(time_posted)
CallCalculateRecencyWeight ==
    /\ wpc = "ready"
    /\ wpc' = "returned"
    /\ recency_weight' = CalculateRecencyWeight(time_posted)
    /\ UNCHANGED time_posted
    /\ UNCHANGED <<qvars, svars, rvars, pvars, gvars, avars>>

----------------------------------------------------------------------------
(* mock_reddit_data.py: get_mock_student_reviews;                           *)
(* analyzers/student_context.py: get_student_insights                       *)

\* comment["text"] and comment["score"] succeed
HasText(c) == IsDict(c) /\ "text" \in DOMAIN c
HasScore(c) == IsDict(c) /\ "score" \in DOMAIN c

\* the lexical scores of the texts of the selected comments
ScoresOf(cs) == [i \in 1..Len(cs) |-> IF HasText(cs[i]) THEN Score(cs[i].text) ELSE PyNone]

\* one entry of formatted_comments (the permalink, which embeds a
\* per-process hash of the text, is left out)
FormatComment(c, subreddit, sent) ==
    [text |-> c.text,
     score |-> c.score,
     subreddit |-> subreddit,
     category |-> Get(c, "category", "general"),
     sentiment |-> sent,
     time_posted |-> Get(c, "time_posted", PyStr("unknown")),
     user_type |-> Get(c, "user_type", "student"),
     recency_weight |-> CalculateRecencyWeight(Get(c, "time_posted", PyStr("2024-06")))]

\* the for loop over selected_comments from index i on:
\* [raised, comments, client, calls]; FormatNext is the rest of iteration i
\* once infer_sentiment has returned r
RECURSIVE FormatLoop(_, _, _, _, _, _, _, _)
RECURSIVE FormatNext(_, _, _, _, _, _, _, _)
FormatLoop(cs, scs, i, subreddit, cls, client, calls, acc) ==
    IF i > Len(cs)
    THEN [raised |-> FALSE, comments |-> acc, client |-> client, calls |-> calls]
    ELSE IF ~HasText(cs[i])
    THEN [raised |-> TRUE, comments |-> acc, client |-> client, calls |-> calls]
    ELSE FormatNext(cs, scs, i, subreddit, cls, calls, acc,
                    InferSentiment(scs[i], TRUE, cls, client))
FormatNext(cs, scs, i, subreddit, cls, calls, acc, r) ==
    IF ~HasScore(cs[i])
    THEN [raised |-> TRUE, comments |-> acc, client |-> r.client,
          calls |-> calls + r.calls]
    ELSE FormatLoop(cs, scs, i + 1, subreddit, cls, r.client, calls + r.calls,
                    Append(acc, FormatComment(cs[i], subreddit, r.sentiment)))

\* [c["recency_weight"] for c in formatted_comments if c["sentiment"] == label]
WeightsOf(formatted, label) ==
    LET sel == SelectSeq(formatted, LAMBDA c : c.sentiment = label)
    IN  [i \in 1..Len(sel) |-> sel[i].recency_weight]
AllWeights(formatted) == [i \in 1..Len(formatted) |-> formatted[i].recency_weight]

\* sentiments.count(label)
CountSentiment(formatted, label) ==
    Cardinality({i \in 1..Len(formatted) : formatted[i].sentiment = label})

\* the if/elif chain that maps the weighted sums to overall_score (tenths)
ScoreOfWeights(total_weight, weighted_positive, weighted_negative) ==
    IF FGreater(total_weight, DblZero)
    THEN IF RatioAboveHalf(weighted_negative, total_weight) THEN 20
         ELSE IF RatioAboveHalf(weighted_positive, total_weight) THEN 45
         ELSE IF RatioGreater(weighted_positive, weighted_negative, total_weight) THEN 35
         ELSE IF RatioGreater(weighted_negative, weighted_positive, total_weight) THEN 25
         ELSE 30
    ELSE 30

\* overall_score, in tenths
OverallScore(formatted) ==
    ScoreOfWeights(FSum(AllWeights(formatted)),
                   FSum(WeightsOf(formatted, "positive")),
                   FSum(WeightsOf(formatted, "negative")))

\* the dict get_mock_student_reviews returns for formatted_comments
ReviewsOf(formatted, subreddit) ==
    [comments |-> formatted,
     total_mentions |-> Len(formatted),
     subreddit |-> subreddit,
     overall_score |-> OverallScore(formatted),
     sentiment_breakdown |->
         [positive |-> CountSentiment(formatted, "positive"),
          negative |-> CountSentiment(formatted, "negative"),
          neutral |-> CountSentiment(formatted, "neutral")],
     source |-> "mock_data",
     note |-> "Mock data - Reddit API requires pre-approval as of Nov 2025"]

\* the tail of get_mock_student_reviews after the loop result f
ReviewsAfterLoop(f, subreddit) ==
    [raised |-> f.raised,
     reviews |-> IF f.raised THEN PyNone ELSE ReviewsOf(f.comments, subreddit),
     client |-> f.client,
     calls |-> f.calls]

\* get_mock_student_reviews: [raised, reviews, client, calls]
GetMockStudentReviews(ld, scs, cls, client) ==
    IF ~ld.ok
    THEN [raised |-> TRUE, reviews |-> PyNone, client |-> client, calls |-> 0]
    ELSE ReviewsAfterLoop(FormatLoop(ld.selected_comments, scs, 1, ld.subreddit, cls,
                                     client, 0, <<>>),
                          ld.subreddit)

\* the body of get_student_insights once get_mock_student_reviews gave m
InsightsOf(m) ==
    [reviews |->
         IF m.raised
         THEN [error |-> "exception",
               comments |-> <<>>,
               overall_score |-> 0,
               sentiment_breakdown |-> [positive |-> 0, neutral |-> 0, negative |-> 0],
               data_source |-> "mock_reddit"]
         ELSE [k \in DOMAIN m.reviews \cup {"data_source", "disclaimer"} |->
                  IF k = "data_source" THEN "mock_reddit"
                  ELSE IF k = "disclaimer"
                  THEN "This data is simulated for demonstration purposes. "
                       \o "Real Reddit API integration requires pre-approval (as of Nov 2025)."
                  ELSE m.reviews[k]],
     client |-> m.client,
     calls |-> m.calls]

\* StudentContextAnalyzer.get_student_insights: [reviews, client, calls]
GetStudentInsights(ld, scs, cls, client) ==
    InsightsOf(GetMockStudentReviews(ld, scs, cls, client))

----------------------------------------------------------------------------
(* Inputs of the review aggregation *)

MaxComments == 6

RawCommentPool ==
    { [text |-> "quiet", score |-> 12, time_posted |-> PyStr("2024-08"),
       category |-> "noise"],
      [text |-> "quiet", score |-> 3, time_posted |-> PyStr("2024-03"),
       category |-> "noise"],
      [text |-> "mold", score |-> 7, time_posted |-> PyStr("2024-09"),
       category |-> "condition"],
      [text |-> "ok", score |-> 1] }

\* a comment of the data file without a score
ScorelessComment == [text |-> "mold", time_posted |-> PyStr("2024-12")]

LoaderOutcomes ==
    { [ok |-> FALSE, subreddit |-> "UIUC", selected_comments |-> <<>>],
      [ok |-> TRUE, subreddit |-> "UIUC", selected_comments |-> <<ScorelessComment>>],
      [ok |-> TRUE, subreddit |-> "UIUC",
       selected_comments |-> <<[text |-> "ok", score |-> 1], ScorelessComment>>] }
    \cup {[ok |-> TRUE, subreddit |-> "UIUC", selected_comments |-> cs] :
             cs \in SeqUpTo(RawCommentPool, MaxComments)}

ReviewClassifiers ==
    { [construct_ok |-> FALSE, reply |-> [kind |-> "error"]],
      [construct_ok |-> TRUE, reply |-> [kind |-> "text", text |-> "positive"]],
      [construct_ok |-> TRUE, reply |-> [kind |-> "text", text |-> "negative"]] }

----------------------------------------------------------------------------
(* State machine of the review aggregation *)

NoReviews == [comments |-> <<>>]

RIdle ==
    /\ loader = [ok |-> TRUE, subreddit |-> "UIUC", selected_comments |-> <<>>]
    /\ rpc = "idle"
    /\ reviews = NoReviews

RInit ==
    /\ loader \in LoaderOutcomes
    /\ rpc = "ready"
    /\ reviews = NoReviews

\* one call of get_student_insights(address, university)
CallGetStudentInsights ==
    /\ rpc = "ready"
    /\ \E scs \in {ScoresOf(loader.selected_comments)} : \E cls \in ReviewClassifiers :
          \E r \in {GetStudentInsights(loader, scs, cls, mrd_gemini_client)} :
              /\ classifier' = cls
              /\ rpc' = "returned"
              /\ reviews' = r.reviews
              /\ mrd_gemini_client' = r.client
              /\ sentiment_calls' = r.calls
    /\ UNCHANGED loader
    /\ UNCHANGED <<text, use_hybrid, spc, sentiment, score10, confidence2, llm_result>>
    /\ UNCHANGED <<qvars, wvars, pvars, gvars, avars>>

----------------------------------------------------------------------------
(* Specifications *)

----------------------------------------------------------------------------
(* question_generator.py: the question count requested in the prompt of    *)
(* _generate_with_llm                                                      *)

\* the literal 0.7 as a double
PointSeven == Dbl(7, -4)

\* the spacing of doubles around the real x >= 0.5, in units of 2^-53,
\* searched upwards from u
RECURSIVE UlpFrom(_, _)
UlpFrom(x, u) == IF ~FAtLeast(x, Dbl(10 * u, 0)) THEN u ELSE UlpFrom(x, 2 * u)

\* (x * 2^53) mod m for a power of two m and x a multiple of 2^-53
UnitsModPow2(x, m) == (((x.t * Pow2Mod(53, 10 * m)) + x.e) % (10 * m)) \div 10

\* the real z (a multiple of 2^-53) rounded to the nearest double, ties to
\* even, u being the spacing around z and r = z mod u
RoundWith(z, u, r) ==
    IF 2 * r < u THEN Dbl(z.t, z.e - (10 * r))
    ELSE IF 2 * r > u THEN Dbl(z.t, z.e + (10 * (u - r)))
    ELSE IF UnitsModPow2(z, 2 * u) = r THEN Dbl(z.t, z.e - (10 * r))
    ELSE Dbl(z.t, z.e + (10 * (u - r)))
RoundIn(z, u) == RoundWith(z, u, UnitsModPow2(z, u))

\* total_flags * 0.7
TimesPointSeven(total_flags) ==
    RoundIn(Dbl(total_flags * PointSeven.t, total_flags * PointSeven.e),
            UlpFrom(Dbl(total_flags * PointSeven.t, total_flags * PointSeven.e), 1))

\* int(x) for a double x >= 0
IntOf(x) == IF x.t % 10 = 0 /\ x.e < 0 THEN (x.t \div 10) - 1 ELSE x.t \div 10

\* mutant: the product is rounded to the nearest integer
ExpectedRange_Rounded(total_flags) ==
    [low |-> Max(1, ((7 * total_flags) + 5) \div 10), high |-> total_flags]

\* "Expected: {max(1, int(total_flags * 0.7))}-{total_flags} questions"
ExpectedRange(total_flags) ==
    [low |-> Max(1, IntOf(TimesPointSeven(total_flags))), high |-> total_flags]

MaxFlagCount == 100

PIdle ==
    /\ n_flags = 0
    /\ ppc = "idle"
    /\ expected = [low |-> 0, high |-> 0]

\* generate_questions calls _generate_with_llm only when total_flags > 0
PInit ==
    /\ n_flags \in 1..MaxFlagCount
    /\ ppc = "ready"
    /\ expected = [low |-> 0, high |-> 0]

\* the prompt of _generate_with_llm(tagged_flags, listing_text, total_flags)
BuildPrompt ==
    /\ ppc = "ready"
    /\ expected' = ExpectedRange(n_flags)
    /\ ppc' = "built"
    /\ UNCHANGED n_flags
    /\ UNCHANGED <<qvars, svars, wvars, rvars, gvars, avars>>

----------------------------------------------------------------------------
(* The process: request threads calling get_gemini_client of               *)
(* question_generator.py and of mock_reddit_data.py                        *)

MaxThreads == 2

Threads == 1..MaxThreads

\* the two modules with a global _gemini_client
Modules == {"question_generator", "mock_reddit_data"}

\* the k-th GeminiClient object constructed by a get_gemini_client
Instance(k) == Client \o "#" \o ToString(k)

\* the global _gemini_client of module m
GlobalOf(m) == IF m = "question_generator" THEN qg_gemini_client ELSE mrd_gemini_client

qrest == <<text_analysis, image_analysis, student_reviews, generator, qpc,
           questions, tagged_flags, valid_flag_ids, validated,
           hallucination_count, should_fallback, path, gen_calls>>
srest == <<text, use_hybrid, classifier, spc, sentiment, score10, confidence2,
           llm_result, sentiment_calls>>

GIdle ==
    /\ gpc = [t \in Threads |-> "idle"]
    /\ gmodule = [t \in Threads |-> "none"]
    /\ gclient = [t \in Threads |-> NoClient]
    /\ constructed = 0
    /\ served = {}

\* a sentiment call (infer_sentiment_llm) or a question-generation call
\* (_generate_with_llm) of thread t enters its module's get_gemini_client
EnterGetGeminiClient(t) ==
    /\ gpc[t] = "idle"
    /\ \E m \in Modules : gmodule' = [gmodule EXCEPT ![t] = m]
    /\ gpc' = [gpc EXCEPT ![t] = "test"]
    /\ UNCHANGED <<gclient, constructed, served>>
    /\ UNCHANGED <<qvars, svars, wvars, rvars, pvars, avars>>

\* if _gemini_client is None:
TestNone(t) ==
    /\ gpc[t] = "test"
    /\ gpc' = [gpc EXCEPT ![t] =
                  IF GlobalOf(gmodule[t]) = NoClient THEN "construct" ELSE "return"]
    /\ UNCHANGED <<gmodule, gclient, constructed, served>>
    /\ UNCHANGED <<qvars, svars, wvars, rvars, pvars, avars>>

\* GeminiClient() returns a new object
Construct(t) ==
    /\ gpc[t] = "construct"
    /\ constructed' = constructed + 1
    /\ gclient' = [gclient EXCEPT ![t] = Instance(constructed + 1)]
    /\ gpc' = [gpc EXCEPT ![t] = "assign"]
    /\ UNCHANGED <<gmodule, served>>
    /\ UNCHANGED <<qvars, svars, wvars, rvars, pvars, avars>>

\* GeminiClient() raises: the exception leaves get_gemini_client
ConstructRaises(t) ==
    /\ gpc[t] = "construct"
    /\ gpc' = [gpc EXCEPT ![t] = "idle"]
    /\ gmodule' = [gmodule EXCEPT ![t] = "none"]
    /\ UNCHANGED <<gclient, constructed, served>>
    /\ UNCHANGED <<qvars, svars, wvars, rvars, pvars, avars>>

\* _gemini_client = <the new object>
Assign(t) ==
    /\ gpc[t] = "assign"
    /\ IF gmodule[t] = "question_generator"
       THEN qg_gemini_client' = gclient[t] /\ UNCHANGED mrd_gemini_client
       ELSE mrd_gemini_client' = gclient[t] /\ UNCHANGED qg_gemini_client
    /\ gclient' = [gclient EXCEPT ![t] = NoClient]
    /\ gpc' = [gpc EXCEPT ![t] = "return"]
    /\ UNCHANGED <<gmodule, constructed, served>>
    /\ UNCHANGED <<qrest, srest, wvars, rvars, pvars, avars>>

\* return _gemini_client: the call of thread t goes on with the handle it
\* reads from the global now
Return(t) ==
    /\ gpc[t] = "return"
    /\ served' = served \cup {[module |-> gmodule[t], handle |-> GlobalOf(gmodule[t])]}
    /\ gpc' = [gpc EXCEPT ![t] = "idle"]
    /\ gmodule' = [gmodule EXCEPT ![t] = "none"]
    /\ UNCHANGED <<gclient, constructed>>
    /\ UNCHANGED <<qvars, svars, wvars, rvars, pvars, avars>>

----------------------------------------------------------------------------
(* app.py: _calculate_overall_assessment and _generate_summary             *)

\* risk_scores.get(level, 2)
RiskScore(level) ==
    CASE level = "low" -> 1
      [] level = "medium" -> 2
      [] level = "high" -> 3
      [] OTHER -> 2

\* image risk from quality_score
ImageRisk(quality_score) ==
    IF quality_score >= 7 THEN 1 ELSE IF quality_score >= 4 THEN 2 ELSE 3

\* mutant: the negative count is taken relative to the number of comments
StudentRisk_Share(sr) ==
    LET breakdown == Get(sr, "sentiment_breakdown", <<>>)
        total == Len(Get(sr, "comments", <<>>))
    IN  IF breakdown = <<>> \/ total = 0 THEN 2
        ELSE IF 10 * Get(breakdown, "negative", 0) < 3 * total THEN 1
        ELSE IF 10 * Get(breakdown, "negative", 0) < 6 * total THEN 2
        ELSE 3

\* student risk: negative_ratio = negative / 100.0, 0.5 without a breakdown
StudentRisk(sr) ==
    LET breakdown == Get(sr, "sentiment_breakdown", <<>>)
    IN  IF breakdown = <<>> THEN 2
        ELSE IF Get(breakdown, "negative", 0) < 30 THEN 1
        ELSE IF Get(breakdown, "negative", 0) < 60 THEN 2
        ELSE 3

\* s.capitalize()
Capitalize(s) ==
    IF s = "" THEN ""
    ELSE LET c == SubSeq(s, 1, 1)
             up == IF \E i \in 1..Len(LowerCase) : SubSeq(LowerCase, i, i) = c
                   THEN LET i == CHOOSE i \in 1..Len(LowerCase) : SubSeq(LowerCase, i, i) = c
                        IN  SubSeq(UpperCase, i, i)
                   ELSE c
         IN  up \o Lower(SubSeq(s, 2, Len(s)))

\* _generate_summary
GenerateSummary(text_risk, image_risk, student_risk, red_flag_count) ==
    LET c1 == IF text_risk >= 3 THEN <<"listing description has serious issues">>
              ELSE IF text_risk >= 2 THEN <<"listing description raises some concerns">>
              ELSE <<>>
        c2 == IF image_risk >= 3 THEN <<"photos are misleading or poor quality">>
              ELSE IF image_risk >= 2 THEN <<"photo quality could be better">>
              ELSE <<>>
        c3 == IF student_risk >= 3 THEN <<"student reviews are largely negative">>
              ELSE IF student_risk >= 2 THEN <<"student reviews are mixed">>
              ELSE <<>>
        concerns == c1 \o c2 \o c3
    IN  IF concerns # <<>>
        THEN "Found " \o ToString(red_flag_count) \o " red flag(s). "
             \o Capitalize(Join(concerns, ", ")) \o "."
        ELSE "This listing looks relatively solid. No major red flags detected."

\* risk_level from avg_risk = risk_sum / 3: low up to 1.5, medium up to 2.5
RiskLevel(risk_sum) ==
    IF 2 * risk_sum <= 9 THEN "low" ELSE IF 2 * risk_sum <= 15 THEN "medium" ELSE "high"

\* recommendation that goes with a risk level
Recommendation(risk_level) ==
    CASE risk_level = "low" ->
           "This listing looks relatively safe. Still ask the suggested questions!"
      [] risk_level = "medium" ->
           "Proceed with caution. Make sure to ask all the suggested questions and schedule a tour."
      [] OTHER ->
           "Major red flags detected. Consider other options or investigate thoroughly before proceeding."

\* the dict _calculate_overall_assessment returns for the three risks; the
\* risks themselves are kept next to it
AssessmentOf(ta, ia, sr, text_risk, image_risk, student_risk) ==
    [risk_level |-> RiskLevel(text_risk + image_risk + student_risk),
     recommendation |-> Recommendation(RiskLevel(text_risk + image_risk + student_risk)),
     red_flag_count |-> Len(SourceOf(ta, "red_flags").items),
     photo_issue_count |-> Len(SourceOf(ia, "photo_issues").items),
     student_score |-> Get(sr, "overall_score", 0),
     summary |-> GenerateSummary(text_risk, image_risk, student_risk,
                                 Len(SourceOf(ta, "red_flags").items)),
     text_risk |-> text_risk,
     image_risk |-> image_risk,
     student_risk |-> student_risk]

\* _calculate_overall_assessment
CalculateOverallAssessment(ta, ia, sr) ==
    AssessmentOf(ta, ia, sr,
                 RiskScore(Get(ta, "overall_risk", "medium")),
                 ImageRisk(Get(ia, "quality_score", 5)),
                 StudentRisk(sr))

----------------------------------------------------------------------------
(* Inputs and state machine of the overall assessment *)

MaxAssessedComments == 3

AssessedTextAnalyses ==
    { [red_flags |-> PyList(<<>>)] }
    \cup {[overall_risk |-> r, red_flags |-> PyList(<< [flag |-> "Sold as-is"] >>)] :
             r \in {"low", "medium", "high", "critical"}}

AssessedImageAnalyses ==
    { [photo_issues |-> PyList(<<>>)] }
    \cup {[photo_issues |-> PyList(<<>>), quality_score |-> q] : q \in {0, 3, 4, 7}}

\* get_diverse_comments samples at most two comments from each of its nine
\* categories
DiverseCategories == 9
SamplePerCategory == 2
DiverseCap == DiverseCategories * SamplePerCategory

\* loader outcomes of the assessed requests: every short list, and the
\* longest lists get_diverse_comments can return, filled with one comment
AssessedLoaderOutcomes ==
    {o \in LoaderOutcomes : Len(o.selected_comments) <= MaxAssessedComments}
    \cup {[ok |-> TRUE, subreddit |-> "UIUC",
           selected_comments |-> [i \in 1..DiverseCap |-> c]] : c \in RawCommentPool}

NoAssessment == [risk_level |-> "none"]

AIdle ==
    /\ apc = "idle"
    /\ assessment = NoAssessment

\* an analysis request after the text and image analyses returned
AInit ==
    /\ text_analysis \in AssessedTextAnalyses
    /\ image_analysis \in AssessedImageAnalyses
    /\ student_reviews = [comments |-> PyList(<<>>), overall_score |-> 0]
    /\ generator = NotAsked
    /\ qg_gemini_client = NoClient
    /\ qpc = "idle"
    /\ questions = <<>>
    /\ tagged_flags = <<>>
    /\ valid_flag_ids = {}
    /\ validated = <<>>
    /\ hallucination_count = 0
    /\ should_fallback = FALSE
    /\ path = "none"
    /\ gen_calls = 0
    /\ loader \in AssessedLoaderOutcomes
    /\ rpc = "ready"
    /\ reviews = NoReviews
    /\ apc = "ready"
    /\ assessment = NoAssessment

\* _calculate_overall_assessment(text_analysis, image_analysis, student_reviews)
\* on the reviews get_student_insights returned for this request
CallCalculateOverallAssessment ==
    /\ apc = "ready"
    /\ rpc = "returned"
    /\ assessment' = CalculateOverallAssessment(text_analysis, image_analysis, reviews)
    /\ apc' = "returned"
    /\ UNCHANGED <<qvars, svars, wvars, rvars, pvars, gvars>>

\* requests to the question pipeline
Init == QInit /\ SIdle /\ WIdle /\ RIdle /\ PIdle /\ GIdle /\ AIdle
Next == CallGenerateQuestions
Spec == Init /\ [][Next]_vars

\* calls of the sentiment classifier
InitSentiment == QIdle /\ SInit /\ WIdle /\ RIdle /\ PIdle /\ GIdle /\ AIdle
NextSentiment == CallInferSentiment
SpecSentiment == InitSentiment /\ [][NextSentiment]_vars

\* calls of the recency weighting
InitRecency == QIdle /\ SIdle /\ WInit /\ RIdle /\ PIdle /\ GIdle /\ AIdle
NextRecency == CallCalculateRecencyWeight
SpecRecency == InitRecency /\ [][NextRecency]_vars

\* requests for student insights
InitReviews == QIdle /\ SIdle /\ WIdle /\ RInit /\ PIdle /\ GIdle /\ AIdle
NextReviews == CallGetStudentInsights
SpecReviews == InitReviews /\ [][NextReviews]_vars

\* calls of the flag tagger
InitTagging == TInit /\ SIdle /\ WIdle /\ RIdle /\ PIdle /\ GIdle /\ AIdle
NextTagging == CallPrepareFlagsWithIds
SpecTagging == InitTagging /\ [][NextTagging]_vars

\* invocations of either entry point: one generate_questions request or one
\* infer_sentiment call
InitCalls == Init \/ InitSentiment
NextCalls == CallGenerateQuestions \/ CallInferSentiment
SpecCalls == InitCalls /\ [][NextCalls]_vars

\* analysis requests up to the overall assessment
InitAssessment == AInit /\ SIdle /\ WIdle /\ PIdle /\ GIdle
NextAssessment == CallGetStudentInsights \/ CallCalculateOverallAssessment
SpecAssessment == InitAssessment /\ [][NextAssessment]_vars

\* prompts of the generation request
InitPrompt == QIdle /\ SIdle /\ WIdle /\ RIdle /\ PInit /\ GIdle /\ AIdle
NextPrompt == BuildPrompt
SpecPrompt == InitPrompt /\ [][NextPrompt]_vars

\* requests to the question pipeline next to the prompts they would send
InitConformant == Init \/ InitPrompt
NextConformant == CallGenerateQuestions \/ BuildPrompt
SpecConformant == InitConformant /\ [][NextConformant]_vars

\* the process serving requests on its threads
InitProcess == QIdle /\ SIdle /\ WIdle /\ RIdle /\ PIdle /\ GIdle /\ AIdle
NextProcess ==
    \E t \in Threads :
        \/ EnterGetGeminiClient(t)
        \/ TestNone(t)
        \/ Construct(t)
        \/ ConstructRaises(t)
        \/ Assign(t)
        \/ Return(t)
SpecProcess == InitProcess /\ [][NextProcess]_vars

\* tagging followed by validation of one candidate
InitValidation == QInit /\ SIdle /\ WIdle /\ RIdle /\ PIdle /\ GIdle /\ AIdle
NextValidation == CallPrepareFlagsWithIds \/ CallValidateLlmOutput
SpecValidation == InitValidation /\ [][NextValidation]_vars

----------------------------------------------------------------------------
(* Properties of the question pipeline *)

\* ids referenced by a returned question ([] when it has no flag_ids key)
IdsOf(q) == Get(q, "flag_ids", <<>>)
ReferencedIds(qs) == UNION {{IdsOf(qs[i])[j] : j \in 1..Len(IdsOf(qs[i]))} : i \in 1..Len(qs)}

\* the candidates the generation service proposed on this request ([] when
\* the reply carries no candidate list)
Proposed ==
    IF /\ generator.reply.kind = "json"
       /\ IsDict(generator.reply.response)
       /\ Iterable(SourceOf(generator.reply.response, "questions"))
    THEN SourceOf(generator.reply.response, "questions").items
    ELSE <<>>

\* C1: every question returned by generate_questions references only ids of
\* valid_flag_ids, whatever the generator answered; a candidate naming an id
\* outside the set is never among the returned questions.
C1_Grounding ==
    qpc = "returned" =>
        /\ ReferencedIds(questions) \subseteq valid_flag_ids
        /\ \A i \in 1..Len(questions) : \A k \in 1..Len(Proposed) :
              (\E j \in 1..Len(IdsOf(Proposed[k])) :
                   IdsOf(Proposed[k])[j] \notin valid_flag_ids)
              => questions[i] # SetKey(Proposed[k], "category",
                                       DetermineCategory(IdsOf(Proposed[k])))

\* C1 witness: the LLM path returned questions after rejecting a candidate
\* that named an id outside valid_flag_ids
C1_Witness ==
    /\ qpc = "returned" /\ path = "llm"
    /\ hallucination_count >= 1
    /\ Len(questions) >= 1
    /\ ReferencedIds(questions) # {}

\* C2 (as claimed): every returned question carries a non-empty flag_ids
C2_NonEmptyFlagIds ==
    qpc = "returned" =>
        \A i \in 1..Len(questions) :
            "flag_ids" \in DOMAIN questions[i] /\ questions[i].flag_ids # <<>>

\* C3: a request that yields zero tagged flags returns [] without calling the
\* generation service and without constructing the client
C3_EmptyShortCircuit ==
    (qpc = "returned" /\ tagged_flags = <<>>) =>
        /\ questions = <<>>
        /\ gen_calls = 0
        /\ qg_gemini_client = NoClient
        /\ path = "empty"

\* C3 witness: a request without flags was served although the generation
\* service would have answered with candidates
C3_Witness ==
    /\ qpc = "returned" /\ tagged_flags = <<>>
    /\ Len(Proposed) >= 1

\* the generation step raises: client construction fails, the call fails, the
\* reply is no JSON, or the JSON has the wrong shape
GenerationRaises(gen) ==
    \/ ~gen.construct_ok
    \/ gen.reply.kind \in {"error", "not_json"}
    \/ /\ gen.reply.kind = "json"
       /\ \/ ~IsDict(gen.reply.response)
          \/ ~Iterable(SourceOf(gen.reply.response, "questions"))

\* a generator that answers with an empty candidate list
EmptyListGenerator ==
    [construct_ok |-> TRUE,
     reply |-> [kind |-> "json", response |-> [questions |-> PyList(<<>>)]]]

\* C4: when the generation step raises on a request with flags, the call
\* returns (never raises) the single composite fallback question for the
\* tagged flags, which is also the result when zero candidates are accepted
C4_ErrorsFallBack ==
    (qpc \in {"returned", "raised"} /\ tagged_flags # <<>> /\ GenerationRaises(generator)) =>
        /\ qpc = "returned"
        /\ Len(questions) = 1
        /\ questions[1].category = "comprehensive_review"
        /\ questions = GenerateFallbackQuestions(tagged_flags)
        /\ questions = GenerateQuestions(text_analysis, image_analysis, student_reviews,
                                         EmptyListGenerator, NoClient).questions

\* C4 witness: the reply was JSON of the wrong shape and the fallback was returned
C4_Witness ==
    /\ qpc = "returned" /\ path = "fallback_error"
    /\ generator.reply.kind = "json"
    /\ Len(questions) = 1

\* C5 (as claimed): generate_questions never raises to its caller
C5_NeverRaises == qpc # "raised"

\* the composite question has one bullet per flag, and the tiers appear in
\* the order high, medium, low
TierOrder(q) ==
    LET hi == IndexOf(q, "High Priority Issues:")
        me == IndexOf(q, "Additional Concerns:")
        lo == IndexOf(q, "Other Items:")
    IN  /\ (hi > 0 /\ me > 0) => hi < me
        /\ (me > 0 /\ lo > 0) => me < lo
        /\ (hi > 0 /\ lo > 0) => hi < lo

\* C6 (as claimed): the fallback on a non-empty flag list is one composite
\* question that lists the description of every tagged flag
C6_FallbackCoversAll ==
    (qpc = "returned" /\ path \in {"fallback_error", "fallback_validation"}) =>
        /\ Len(questions) = 1
        /\ \A i \in 1..Len(tagged_flags) :
              Contains(questions[1].question, Bullet \o tagged_flags[i].description)
        /\ TierOrder(questions[1].question)

\* C7: validation signals the fallback exactly when
\* (A = 0 and N > 0) or H > A or (A / N < 0.5 and N >= 3)
C7_FallbackRule ==
    path \in {"llm", "fallback_validation"} =>
        LET A == Len(validated)
            H == hallucination_count
            N == Len(tagged_flags)
        IN  /\ should_fallback <=> ((A = 0 /\ N > 0) \/ H > A \/ (2 * A < N /\ N >= 3))
            /\ (N = 4 /\ A = 1 /\ H = 0) => should_fallback
            /\ (N = 2 /\ A = 1 /\ H = 0) => ~should_fallback
            /\ (A = H /\ A >= 1 /\ ~(2 * A < N /\ N >= 3)) => ~should_fallback
            /\ A + H = Len(Proposed)

\* C7 witness: four flags, one accepted candidate, none rejected: low coverage
C7_Witness ==
    /\ path = "fallback_validation"
    /\ Len(tagged_flags) = 4 /\ Len(validated) = 1 /\ hallucination_count = 0

\* further cases of C7 that the model reaches
C7_CaseTwoFlags ==
    ~(path = "llm" /\ Len(tagged_flags) = 2 /\ Len(validated) = 1 /\ hallucination_count = 0)
C7_CaseTie ==
    ~(path = "llm" /\ Len(validated) = hallucination_count /\ Len(validated) >= 1)
C7_CaseHallucinations ==
    ~(path = "fallback_validation" /\ Len(validated) >= 1
      /\ hallucination_count > Len(validated)
      /\ 2 * Len(validated) >= Len(tagged_flags))

----------------------------------------------------------------------------
(* Properties of the sentiment classifier *)

\* infer_sentiment_llm was invoked during the call
Consulted == llm_result # "unused"

\* the external service answered with a text on this call
Answered == Consulted /\ sentiment_calls = 1 /\ classifier.reply.kind = "text"

\* C8: a final score >= 3 gives positive and a final score <= -3 gives
\* negative, in both cases without any call of the external classifier,
\* whatever the confidence
C8_ObviousCases ==
    spc = "returned" =>
        /\ score10 >= 30 => (sentiment = "positive" /\ ~Consulted /\ sentiment_calls = 0)
        /\ score10 <= -30 => (sentiment = "negative" /\ ~Consulted /\ sentiment_calls = 0)

\* C8 witness: a score of exactly -3 with low confidence in hybrid mode, the
\* service ready to answer positive
C8_Witness ==
    /\ spc = "returned" /\ use_hybrid
    /\ score10 = -30 /\ confidence2 < 4
    /\ classifier.construct_ok /\ classifier.reply.kind = "text"
    /\ ParseSentiment(classifier.reply.text) = "positive"
    /\ sentiment = "negative"

\* the first word of the response, compared case-insensitively, is label:
\* only white space precedes it and white space or the end follows it
FirstWordIs(response, label) ==
    \E i \in 0..(Len(response) - Len(label)) :
        /\ \A k \in 1..i : IsSpace(SubSeq(response, k, k))
        /\ Lower(SubSeq(response, i + 1, i + Len(label))) = label
        /\ \/ i + Len(label) = Len(response)
           \/ IsSpace(SubSeq(response, i + Len(label) + 1, i + Len(label) + 1))

FirstWordIsLabel(response) == \E l \in Labels : FirstWordIs(response, l)

\* C9: in hybrid mode the external classifier is consulted exactly when
\* -3 < score < 3 and confidence < 2 (the request is sent once whenever the
\* client is available); a response whose first word is a label, or that
\* otherwise contains "positive" or "negative", decides the result even
\* against the sign of the rule score
C9_HybridEscalation ==
    (spc = "returned" /\ use_hybrid) =>
        /\ Consulted <=> (-30 < score10 /\ score10 < 30 /\ confidence2 < 4)
        /\ sentiment_calls = IF Consulted /\ classifier.construct_ok THEN 1 ELSE 0
        /\ Answered =>
              LET r == classifier.reply.text
              IN  /\ \A l \in Labels : FirstWordIs(r, l) => sentiment = l
                  /\ (~FirstWordIsLabel(r) /\ Contains(Lower(r), "positive"))
                        => sentiment = "positive"
                  /\ (~FirstWordIsLabel(r) /\ ~Contains(Lower(r), "positive")
                      /\ Contains(Lower(r), "negative"))
                        => sentiment = "negative"

\* C9 witness: the rule score is negative, the service says "Positive." and
\* the call returns positive
C9_Witness ==
    /\ spc = "returned" /\ use_hybrid /\ Answered
    /\ score10 < 0
    /\ ~FirstWordIsLabel(classifier.reply.text)
    /\ sentiment = "positive"

\* tier 2 gave a label on this call
Tier2Label == Consulted /\ llm_result # "unknown"

\* C10: when tier 1 does not decide and tier 2 yields no label, the result
\* is positive for score >= 1, negative for score <= -1 and neutral
\* otherwise; the result is always one of the three labels
C10_RuleFallback ==
    spc = "returned" =>
        /\ sentiment \in Labels
        /\ (-30 < score10 /\ score10 < 30 /\ ~Tier2Label) =>
              /\ score10 >= 10 => sentiment = "positive"
              /\ score10 <= -10 => sentiment = "negative"
              /\ (-10 < score10 /\ score10 < 10) => sentiment = "neutral"
        /\ (-30 < score10 /\ score10 < 30
            /\ (~use_hybrid \/ confidence2 >= 4 \/ ~classifier.construct_ok
                \/ classifier.reply.kind = "error"
                \/ (classifier.reply.kind = "text"
                    /\ ~FirstWordIsLabel(classifier.reply.text)
                    /\ ~Contains(Lower(classifier.reply.text), "positive")
                    /\ ~Contains(Lower(classifier.reply.text), "negative"))))
           => ~Tier2Label

\* C10 witness: the service answered with an unrecognised text and the rule
\* score of exactly 1 gave positive
C10_Witness ==
    /\ spc = "returned" /\ Answered
    /\ llm_result = "unknown"
    /\ score10 = 10
    /\ sentiment = "positive"

\* the response is one line (surrounding white space apart) whose first
\* token is a label
OneLineLabel(response) ==
    FirstWordIsLabel(response) /\ ~Contains(Strip(response), "\n")

\* C11 (as claimed): a response of the sentiment classification call is used
\* only if it is one line whose first token is positive, neutral or
\* negative; on any other content the call counts as failed and the result
\* is the tier-3 rule result
C11_FirstTokenOnly ==
    (spc = "returned" /\ Answered) =>
        /\ Tier2Label => OneLineLabel(classifier.reply.text)
        /\ ~OneLineLabel(classifier.reply.text) =>
              (llm_result = "unknown" /\ sentiment = Tier3(score10))

----------------------------------------------------------------------------
(* Properties of the recency weighting *)

\* the year-month text of year y and month m, month in two digits
YearMonth(y, m) == ToString(y) \o "-" \o (IF m < 10 THEN "0" ELSE "") \o ToString(m)

\* the inputs of the model that are no year-month
Unparseable ==
    {PyStr(s) : s \in {"unknown", "", "2024", "2024-", "24-11", "2024/11",
                       "2024-11-05", " 2024-11", "2024-11 ", "Nov 2024",
                       "2024-111", "2024-00", "2024-13", "2025-0", "0000-06"}}
    \cup {PyNone}

\* C12: the weight is a step function of the whole months elapsed up to
\* 2025-01: at most 2 gives 1.5, 3 to 6 gives 1.2, 7 to 12 gives 1.0, more
\* than 12 gives 0.7; an input that is no year-month gives 1.0; the call
\* never raises
C12_RecencyStep ==
    /\ wpc # "raised"
    /\ wpc = "returned" =>
          /\ \A y \in (ReferenceYear - MaxYearsBack)..(ReferenceYear + 1) : \A m \in 1..12 :
                time_posted = PyStr(YearMonth(y, m)) =>
                    LET elapsed == (2025 - y) * 12 + (1 - m)
                    IN  /\ elapsed <= 2 => recency_weight = 15
                        /\ (3 <= elapsed /\ elapsed <= 6) => recency_weight = 12
                        /\ (7 <= elapsed /\ elapsed <= 12) => recency_weight = 10
                        /\ elapsed > 12 => recency_weight = 7
          /\ time_posted = PyStr("2024-11") => recency_weight = 15
          /\ time_posted = PyStr("2024-07") => recency_weight = 12
          /\ time_posted = PyStr("2024-01") => recency_weight = 10
          /\ time_posted = PyStr("2023-12") => recency_weight = 7
          /\ time_posted \in Unparseable => recency_weight = 10
          /\ recency_weight \in {15, 12, 10, 7}

\* C12 witness: a posting exactly two months before the reference date was
\* weighted 1.5
C12_Witness ==
    /\ wpc = "returned"
    /\ time_posted = PyStr("2024-11")
    /\ recency_weight = 15

\* further cases of C12 that the model reaches
C12_CaseThirteen == ~(wpc = "returned" /\ time_posted = PyStr("2023-12") /\ recency_weight = 7)
C12_CaseUnparseable == ~(wpc = "returned" /\ time_posted = PyStr("2024-13") /\ recency_weight = 10)

----------------------------------------------------------------------------
(* Properties of the review aggregation *)

RECURSIVE SumSeq(_)
SumSeq(ws) == IF ws = <<>> THEN 0 ELSE Head(ws) + SumSeq(Tail(ws))

\* the request was served by get_mock_student_reviews (no exception)
Aggregated == rpc = "returned" /\ "error" \notin DOMAIN reviews

\* the recency-weighted totals of the returned comments, in tenths
TotalWeight == SumSeq(AllWeights(reviews.comments))
PositiveWeight == SumSeq(WeightsOf(reviews.comments, "positive"))
NegativeWeight == SumSeq(WeightsOf(reviews.comments, "negative"))

\* C13 (as claimed): overall_score follows from the recency-weighted
\* positive and negative shares by the first matching rule: negative share
\* above one half gives 2.0, positive share above one half gives 4.5,
\* positive above negative gives 3.5, negative above positive gives 2.5,
\* otherwise 3.0; no comments give 3.0; a single negative comment gives 2.0
C13_ScoreRule ==
    Aggregated =>
        /\ reviews.overall_score =
              IF TotalWeight = 0 THEN 30
              ELSE IF 2 * NegativeWeight > TotalWeight THEN 20
              ELSE IF 2 * PositiveWeight > TotalWeight THEN 45
              ELSE IF PositiveWeight > NegativeWeight THEN 35
              ELSE IF NegativeWeight > PositiveWeight THEN 25
              ELSE 30
        /\ reviews.comments = <<>> => reviews.overall_score = 30
        /\ (Len(reviews.comments) = 1 /\ reviews.comments[1].sentiment = "negative")
              => reviews.overall_score = 20

\* cases of C13 that the model reaches with the claimed result
C13_CaseSingleNegative ==
    ~(Aggregated /\ Len(reviews.comments) = 1
      /\ reviews.comments[1].sentiment = "negative" /\ reviews.overall_score = 20)
C13_CaseEmpty == ~(Aggregated /\ reviews.comments = <<>> /\ reviews.overall_score = 30)
C13_CaseBalanced ==
    ~(Aggregated /\ PositiveWeight = NegativeWeight /\ PositiveWeight > 0
      /\ reviews.overall_score = 30)

\* C14 (as claimed): every aggregate handed to the caller, the one of the
\* error path included, has overall_score in {2.0, 2.5, 3.0, 3.5, 4.5} and
\* a sentiment breakdown that sums to the number of comments returned
C14_AggregateShape ==
    rpc = "returned" =>
        /\ reviews.overall_score \in {20, 25, 30, 35, 45}
        /\ reviews.sentiment_breakdown.positive + reviews.sentiment_breakdown.neutral
           + reviews.sentiment_breakdown.negative = Len(reviews.comments)

----------------------------------------------------------------------------
(* Properties of flag tagging *)

\* the items of the four sources of the request
RedItems == SourceOf(text_analysis, "red_flags").items
MissingItems == SourceOf(text_analysis, "missing_info").items
PhotoItems == SourceOf(image_analysis, "photo_issues").items
CommentItems == SourceOf(student_reviews, "comments").items

\* the tagged flags of one type, in order
FlagsOfType(type) == SelectSeq(tagged_flags, LAMBDA f : f.type = type)

\* number of flags of the type of flag i that precede it
PositionInType(i) ==
    Cardinality({j \in 1..(i - 1) : tagged_flags[j].type = tagged_flags[i].type})

\* prefix of the ids of a type
IdPrefix(type) == IF type = "red_flag" THEN "text_flag" ELSE type

FlagIds == {tagged_flags[i].id : i \in 1..Len(tagged_flags)}

\* the indices of the negative comments of the request
NegativeIndices ==
    {i \in 1..Len(CommentItems) :
        "sentiment" \in DOMAIN CommentItems[i] /\ CommentItems[i].sentiment = "negative"}

\* the index of the n-th negative comment
NthNegative(n) ==
    CHOOSE i \in NegativeIndices : Cardinality({j \in NegativeIndices : j < i}) = n - 1

\* C15 (as claimed): every id is "<type>_<index>" with the flag's own type
C15_IdIsTypeIndex ==
    qpc = "tagged" =>
        \A i \in 1..Len(tagged_flags) :
            tagged_flags[i].id
                = tagged_flags[i].type \o "_" \o ToString(PositionInType(i))

\* C15 (amended): every id is "<prefix>_<index>", the prefix being text_flag
\* for red flags and the type for the other three sources, the index the
\* zero-based position of the item in its source list; the ids of a request
\* are pairwise distinct and valid_flag_ids is exactly the set of them
C15_IdScheme ==
    qpc = "tagged" =>
        /\ \A i \in 1..Len(tagged_flags) :
              /\ tagged_flags[i].type
                    \in {"red_flag", "missing_info", "photo_issue", "student_concern"}
              /\ tagged_flags[i].id = IdPrefix(tagged_flags[i].type) \o "_"
                                         \o ToString(PositionInType(i))
        /\ Len(FlagsOfType("red_flag")) = Len(RedItems)
        /\ \A k \in 1..Len(RedItems) :
              /\ FlagsOfType("red_flag")[k].id = "text_flag_" \o ToString(k - 1)
              /\ FlagsOfType("red_flag")[k].description = Get(RedItems[k], "flag", "")
        /\ Len(FlagsOfType("missing_info")) = Len(MissingItems)
        /\ Len(FlagsOfType("photo_issue")) = Len(PhotoItems)
        /\ \A i, j \in 1..Len(tagged_flags) :
              i # j => tagged_flags[i].id # tagged_flags[j].id
        /\ valid_flag_ids = FlagIds
        /\ Cardinality(valid_flag_ids) = Len(tagged_flags)

\* C15 witness: two red flags, a missing item, a photo issue and a student
\* concern were tagged
C15_Witness ==
    /\ qpc = "tagged"
    /\ {"text_flag_0", "text_flag_1", "missing_info_0", "photo_issue_0",
        "student_concern_0"} \subseteq valid_flag_ids

\* C16: the student_concern flags are built from the first min(3, k) of the
\* k negative comments, in input order with ids 0, 1, 2; other comments and
\* later negative ones give no flag, and no flag is merged with a flag of
\* another source
C16_StudentConcernCap ==
    qpc = "tagged" =>
        LET concerns == FlagsOfType("student_concern")
            k == Cardinality(NegativeIndices)
        IN  /\ Len(concerns) = Min(3, k)
            /\ \A n \in 1..Len(concerns) :
                  LET c == CommentItems[NthNegative(n)]
                  IN  /\ concerns[n].id = "student_concern_" \o ToString(n - 1)
                      /\ concerns[n].reason = Get(c, "text", "")
                      /\ concerns[n].description
                            = "Student feedback: " \o Get(c, "category", "general")
                              \o " concerns"
            /\ Len(tagged_flags)
                  = Len(RedItems) + Len(MissingItems) + Len(PhotoItems) + Min(3, k)
            /\ \A i \in 1..Len(tagged_flags) :
                  (i <= Len(tagged_flags) - Len(concerns))
                      <=> tagged_flags[i].type # "student_concern"

\* C16 witness: four negative comments gave exactly three student concerns,
\* the fourth a different comment from the third
C16_Witness ==
    /\ qpc = "tagged"
    /\ Cardinality(NegativeIndices) = 4
    /\ CommentItems[NthNegative(4)] # CommentItems[NthNegative(3)]
    /\ Len(FlagsOfType("student_concern")) = 3

\* a further case of C16 that the model reaches: a positive comment precedes
\* the negative ones
C16_CaseInterleaved ==
    ~(qpc = "tagged" /\ Len(CommentItems) = 4 /\ 1 \notin NegativeIndices
      /\ 3 \notin NegativeIndices /\ Len(FlagsOfType("student_concern")) = 2)

----------------------------------------------------------------------------
(* Properties of _validate_llm_output *)

\* every id the candidate q names is one of valid_flag_ids
Grounded(q) == {IdsOf(q)[j] : j \in 1..Len(IdsOf(q))} \subseteq valid_flag_ids

\* positions of the proposed candidates that name only ids of valid_flag_ids
GroundedPositions == {k \in 1..Len(Proposed) : Grounded(Proposed[k])}

\* the k-th smallest element of a set of numbers
RECURSIVE KthOf(_, _)
KthOf(S, k) ==
    LET m == CHOOSE x \in S : \A y \in S : x <= y
    IN  IF k = 1 THEN m ELSE KthOf(S \ {m}, k - 1)

\* C17: when _validate_llm_output ran to its decision, the accepted questions
\* are exactly the candidates all of whose flag_ids are in valid_flag_ids, in
\* the order proposed; every other candidate adds one to hallucination_count,
\* so accepted + hallucinations = number of candidates.
C17_AcceptIffAllValid ==
    path \in {"llm", "fallback_validation"} =>
        /\ Len(validated) = Cardinality(GroundedPositions)
        /\ \A i \in 1..Len(validated) :
              validated[i] =
                  SetKey(Proposed[KthOf(GroundedPositions, i)], "category",
                         validated[i].category)
        /\ hallucination_count =
              Cardinality((1..Len(Proposed)) \ GroundedPositions)
        /\ Len(validated) + hallucination_count = Len(Proposed)

\* C17 witness: of two candidates one is accepted, and the other, which names
\* a valid id next to an invalid one, is rejected and counted once
C17_Witness ==
    /\ path \in {"llm", "fallback_validation"}
    /\ Len(Proposed) = 2 /\ Len(validated) = 1 /\ hallucination_count = 1
    /\ \E k \in 1..2 :
          /\ ~Grounded(Proposed[k])
          /\ \E j \in 1..Len(IdsOf(Proposed[k])) : IdsOf(Proposed[k])[j] \in valid_flag_ids

----------------------------------------------------------------------------
(* Properties of _determine_category *)

\* the part of an id before its last underscore ("" when it has none)
RECURSIVE StemOf(_, _)
StemOf(id, n) ==
    IF n = 0 THEN ""
    ELSE IF SubSeq(id, n, n) = "_" THEN SubSeq(id, 1, n - 1)
    ELSE StemOf(id, n - 1)

\* the category of each id prefix
CategoryOfStem(stem) ==
    CASE stem = "text_flag" -> "listing_description"
      [] stem = "missing_info" -> "missing_details"
      [] stem = "photo_issue" -> "photos"
      [] stem = "student_concern" -> "student_concerns"
      [] OTHER -> "general"

\* C18: an accepted question's category is the one of the prefix of the first
\* id of its flag_ids (text_flag: listing_description, missing_info:
\* missing_details, photo_issue: photos, student_concern: student_concerns),
\* general when flag_ids is empty or absent; later ids do not matter.
C18_CategoryFromFirstId ==
    qpc = "validated" =>
        \A i \in 1..Len(validated) :
            LET ids == IdsOf(validated[i])
            IN  /\ "category" \in DOMAIN validated[i]
                /\ ids = <<>> => validated[i].category = "general"
                /\ ids # <<>> =>
                      validated[i].category = CategoryOfStem(StemOf(ids[1], Len(ids[1])))

\* C18 witness: an accepted question whose first id is a photo issue and whose
\* second id is a text flag is filed under photos
C18_Witness ==
    /\ qpc = "validated"
    /\ Len(validated) = 1
    /\ IdsOf(validated[1]) = <<"photo_issue_0", "text_flag_0">>
    /\ validated[1].category = "photos"

\* further cases of C18 that the model reaches
C18_CaseStudentConcern ==
    ~(qpc = "validated" /\ Len(validated) = 1
      /\ IdsOf(validated[1]) = <<"student_concern_0", "missing_info_0">>
      /\ validated[1].category = "student_concerns")
C18_CaseNoIds ==
    ~(qpc = "validated" /\ Len(validated) = 1
      /\ "flag_ids" \notin DOMAIN validated[1]
      /\ validated[1].category = "general")
C18_CaseEmptyIds ==
    ~(qpc = "validated" /\ Len(validated) = 1
      /\ "flag_ids" \in DOMAIN validated[1] /\ IdsOf(validated[1]) = <<>>
      /\ validated[1].category = "general")

----------------------------------------------------------------------------
(* Properties of the requested question count *)

\* k is an integer nearest to 0.7 * n
NearestToSevenTenths(k, n) == (10 * k) - (7 * n) \in -5..5

\* C19 (as claimed): the requested range is max(1, round(0.7 * n)) to n,
\* whichever way round() resolves a tie.
C19_RoundedLowerBound ==
    ppc = "built" =>
        /\ expected.high = n_flags
        /\ \E k \in 0..n_flags :
              NearestToSevenTenths(k, n_flags) /\ expected.low = Max(1, k)

\* C19 (amended): the requested range is max(1, int(n * 0.7)) to n, the
\* product being truncated: max(1, floor(7n / 10)) for every n up to 100
\* except n = 90, where the double product is just below 63 and gives 62.
C19_TruncatedLowerBound ==
    ppc = "built" =>
        /\ expected.high = n_flags
        /\ expected.low =
              IF n_flags = 90 THEN 62 ELSE Max(1, (7 * n_flags) \div 10)
        /\ n_flags = 1 => expected.low = 1
        /\ n_flags = 4 => expected.low = 2
        /\ n_flags = 10 => expected.low = 7

\* C19 witness: four flags ask for 2-4 questions
C19_Witness ==
    ppc = "built" /\ n_flags = 4 /\ expected = [low |-> 2, high |-> 4]

\* a further case of C19 that the model reaches
C19_CaseNinety == ~(ppc = "built" /\ n_flags = 90 /\ expected.low = 62)

----------------------------------------------------------------------------
(* Properties of the service handle *)

\* C20 (as claimed): over any interleaving of requests the GeminiClient
\* handle is constructed at most once, and every sentiment or
\* question-generation call is served that one instance.
C20_OneHandle ==
    /\ constructed <= 1
    /\ Cardinality({s.handle : s \in served}) <= 1

\* cases of C20 that the model reaches: one thread alone gets two instances,
\* one per module; two threads racing in one module construct two instances
C20_CasePerModule ==
    ~(/\ gpc = [t \in Threads |-> "idle"]
      /\ gmodule[2] = "none"
      /\ served = {[module |-> "mock_reddit_data", handle |-> Instance(1)],
                   [module |-> "question_generator", handle |-> Instance(2)]})
C20_CaseRace ==
    ~(/\ constructed = 2
      /\ qg_gemini_client = NoClient
      /\ \E s1, s2 \in served :
            /\ s1.module = "mock_reddit_data" /\ s2.module = "mock_reddit_data"
            /\ s1.handle # s2.handle)

----------------------------------------------------------------------------
(* Properties of the external calls *)

\* the label of the rules alone for sentiment_score s10 (in tenths)
RuleLabel(s10) ==
    IF s10 >= 10 THEN "positive" ELSE IF s10 <= -10 THEN "negative" ELSE "neutral"

\* C21: one infer_sentiment invocation makes at most one external sentiment
\* call and one generate_questions invocation at most one external generation
\* call; when that call fails the invocation ends with the rule-based label,
\* respectively the single composite fallback question.
C21_NoRetries ==
    /\ spc = "returned" =>
          /\ sentiment_calls <= 1
          /\ (sentiment_calls = 1 /\ classifier.reply.kind = "error") =>
                 sentiment = RuleLabel(score10)
    /\ qpc = "returned" =>
          /\ gen_calls <= 1
          /\ (gen_calls = 1 /\ generator.reply.kind = "error") =>
                 /\ Len(questions) = 1
                 /\ questions[1].category = "comprehensive_review"

\* C21 witness: the one sentiment call of a borderline comment failed and the
\* rules decided
C21_Witness ==
    /\ spc = "returned"
    /\ sentiment_calls = 1
    /\ classifier.reply.kind = "error"
    /\ llm_result = "unknown"
    /\ sentiment = RuleLabel(score10)

\* a further case of C21 that the model reaches: the one generation call failed
C21_CaseGeneration ==
    ~(qpc = "returned" /\ gen_calls = 1 /\ generator.reply.kind = "error"
      /\ path = "fallback_error" /\ Len(questions) = 1)

----------------------------------------------------------------------------
(* Properties of the lexical score *)

\* the number of distinct entries of a vocabulary list contained in the
\* lower-cased text
Distinct(entries) ==
    Cardinality({e \in {entries[i] : i \in 1..Len(entries)} : Contains(Lower(text), e)})

\* 3*cp + 2*sp + p - 3*cn - 2*sn - n
RawScore ==
    (3 * Distinct(college_positive)) + (2 * Distinct(strong_positive))
    + Distinct(positive)
    - (3 * Distinct(college_negative)) - (2 * Distinct(strong_negative))
    - Distinct(negative)

\* cp + sp + p + cn + sn + n
Signals ==
    Distinct(college_positive) + Distinct(strong_positive) + Distinct(positive)
    + Distinct(college_negative) + Distinct(strong_negative) + Distinct(negative)

\* C22: signed_score is the raw score 3*cp + 2*sp + p - 3*cn - 2*sn - n, times
\* 0.7 when a negation entry is contained; confidence is the number of hits
\* minus 0.5 per negation entry; an entry of two sets counts in both and a
\* repeated entry counts once.  (score10 is in tenths, confidence2 in halves.)
C22_ScoreFormula ==
    spc = "returned" =>
        /\ Distinct(negations) = 0 => score10 = 10 * RawScore
        /\ Distinct(negations) > 0 => score10 = 7 * RawScore
        /\ confidence2 = (2 * Signals) - Distinct(negations)
        /\ text = "AVOID" => (score10 = -50 /\ confidence2 = 4)
        /\ text = "nice nice" => (score10 = 10 /\ confidence2 = 2)

\* C22 witness: an entry of two sets together with a negation
C22_Witness ==
    /\ spc = "returned"
    /\ text = "AVOID not"
    /\ score10 = -35
    /\ confidence2 = 2

\* further cases of C22 that the model reaches
C22_CaseRepeated == ~(spc = "returned" /\ text = "nice nice" /\ score10 = 10)
C22_CaseTwoSets == ~(spc = "returned" /\ text = "clean" /\ score10 = 40 /\ confidence2 = 4)

----------------------------------------------------------------------------
(* Properties of negation *)

\* the six vocabulary hit counts of the text t
HitCounts(t) ==
    [vocabulary \in {"cp", "sp", "p", "cn", "sn", "n"} |->
        LET entries == CASE vocabulary = "cp" -> college_positive
                         [] vocabulary = "sp" -> strong_positive
                         [] vocabulary = "p" -> positive
                         [] vocabulary = "cn" -> college_negative
                         [] vocabulary = "sn" -> strong_negative
                         [] vocabulary = "n" -> negative
        IN  Cardinality({i \in 1..Len(entries) : Contains(Lower(t), entries[i])})]

\* t contains a negation entry
Negated(t) == \E i \in 1..Len(negations) : Contains(Lower(t), negations[i])

\* the call was decided by the rules: hybrid off, or no usable external answer
RuleOnly == ~use_hybrid \/ llm_result \in {"unused", "unknown"}

\* C23: when the rules decide a text that contains a negation, the label is
\* the one the rules give a text with the same hit counts and no negation, or
\* neutral; never the opposite polarity.
C23_NegationNeverFlips ==
    (spc = "returned" /\ RuleOnly /\ Negated(text)) =>
        \A t2 \in Texts :
            (~Negated(t2) /\ HitCounts(t2) = HitCounts(text)) =>
                \E plain \in {InferSentiment(Score(t2), FALSE, classifier, NoClient).sentiment} :
                    /\ sentiment \in {plain, "neutral"}
                    /\ plain = "negative" => sentiment # "positive"
                    /\ plain = "positive" => sentiment # "negative"

\* C23 witness: "nice" alone is positive, with a negation it becomes neutral
C23_Witness ==
    /\ spc = "returned" /\ RuleOnly
    /\ text = "nice not"
    /\ sentiment = "neutral"
    /\ "nice" \in Texts
    /\ InferSentiment(Score("nice"), FALSE, classifier, NoClient).sentiment = "positive"

\* a further case of C23 that the model reaches: the polarity is kept
C23_CaseKept ==
    ~(spc = "returned" /\ RuleOnly /\ text = "thin walls not" /\ sentiment = "negative")

----------------------------------------------------------------------------
(* Properties of the returned records *)

\* C24 (as claimed): every question generate_questions returns has the key
\* 'question', on the LLM path and on the fallback path
C24_QuestionText ==
    qpc = "returned" =>
        \A i \in 1..Len(questions) : "question" \in DOMAIN questions[i]

\* a case of C24 that the model reaches: the fallback question has its text
C24_CaseFallback ==
    ~(qpc = "returned" /\ path = "fallback_error" /\ Len(questions) = 1
      /\ "question" \in DOMAIN questions[1])

----------------------------------------------------------------------------
(* Properties of the LLM path *)

\* the record q without the key k
Without(q, k) == [x \in DOMAIN q \ {k} |-> q[x]]

\* C25: when no fallback rule fires, generate_questions returns the accepted
\* candidates in the order proposed, the rejected ones removed, each unchanged
\* but for its category field; the tagged flags and valid_flag_ids are those
\* of tagging.
C25_AcceptedAsIs ==
    (qpc = "returned" /\ path = "llm") =>
        /\ ~should_fallback
        /\ Len(questions) = Cardinality(GroundedPositions)
        /\ \A i \in 1..Len(questions) :
              /\ "category" \in DOMAIN questions[i]
              /\ Without(questions[i], "category")
                    = Without(Proposed[KthOf(GroundedPositions, i)], "category")
        /\ valid_flag_ids = {tagged_flags[i].id : i \in 1..Len(tagged_flags)}
        /\ \E prep \in {PrepareFlagsWithIds(text_analysis, image_analysis, student_reviews)} :
              tagged_flags = prep.tagged_flags /\ valid_flag_ids = prep.valid_flag_ids

\* C25 witness: of three candidates the second is rejected and the other two
\* are returned in their order
C25_Witness ==
    /\ qpc = "returned" /\ path = "llm"
    /\ Len(Proposed) = 3
    /\ GroundedPositions = {1, 3}
    /\ Len(questions) = 2
    /\ questions[1] # questions[2]

----------------------------------------------------------------------------
(* Properties of the coverage rule *)

\* the flags of the request that some accepted question references
AddressedFlags == ReferencedIds(validated) \cap valid_flag_ids

\* validation asked for the fallback although some question was accepted and
\* the rejections do not outnumber the acceptances: the coverage rule fired
LowCoverageSignalled ==
    /\ should_fallback
    /\ Len(validated) > 0
    /\ hallucination_count <= Len(validated)

\* C26 (as claimed): with at least 3 flags, validation signals the fallback
\* whenever fewer than half of the flags are referenced by an accepted
\* question, and does not signal low coverage when at least half are.
C26_FlagCoverage ==
    (path \in {"llm", "fallback_validation"} /\ Len(tagged_flags) >= 3) =>
        /\ 2 * Cardinality(AddressedFlags) < Len(tagged_flags) => should_fallback
        /\ 2 * Cardinality(AddressedFlags) >= Len(tagged_flags) => ~LowCoverageSignalled

\* cases of C26 that the model reaches: one question that combines two of
\* three flags is discarded for low coverage; two questions about the same
\* one of four flags pass
C26_CaseCombined ==
    ~(/\ path = "fallback_validation" /\ LowCoverageSignalled
      /\ Len(tagged_flags) = 3 /\ Len(validated) = 1
      /\ Cardinality(AddressedFlags) = 2)
C26_CaseRepeated ==
    ~(/\ path = "llm" /\ Len(tagged_flags) = 4 /\ Len(validated) = 2
      /\ Cardinality(AddressedFlags) = 1)

----------------------------------------------------------------------------
(* Properties of the returned list *)

\* tagging returned and found at least one flag
TaggedSome == qpc \in {"returned", "raised"} /\ path # "raised" /\ tagged_flags # <<>>

\* C27: on a request whose tagging succeeds with at least one flag,
\* generate_questions returns either the non-empty list of accepted LLM
\* questions or exactly the one composite fallback question; never an empty
\* list, never a mixture.
C27_NonEmptyUnmixed ==
    TaggedSome =>
        /\ qpc = "returned"
        /\ questions # <<>>
        /\ \/ /\ path = "llm"
              /\ questions = validated
              /\ \A i \in 1..Len(questions) :
                    questions[i].category # "comprehensive_review"
           \/ /\ path \in {"fallback_validation", "fallback_error"}
              /\ Len(questions) = 1
              /\ questions[1].category = "comprehensive_review"
              /\ \A i \in 1..Len(validated) : questions[1] # validated[i]

\* C27 witness: a candidate was accepted, but the rejections outnumbered the
\* acceptances, and only the composite question is returned
C27_Witness ==
    /\ TaggedSome
    /\ path = "fallback_validation"
    /\ Len(validated) = 1 /\ hallucination_count = 2
    /\ Len(questions) = 1
    /\ questions[1].category = "comprehensive_review"

\* a further case of C27 that the model reaches: an empty candidate list
C27_CaseNoCandidates ==
    ~(TaggedSome /\ path = "fallback_validation" /\ Proposed = <<>>
      /\ generator.reply.kind = "json" /\ Len(questions) = 1)

----------------------------------------------------------------------------
(* Properties of a response that obeys the prompt *)

\* the candidates are as many as the prompt asked for and name only valid ids
ObeysPrompt ==
    /\ Len(Proposed) >= ExpectedRange(Len(tagged_flags)).low
    /\ Len(Proposed) <= ExpectedRange(Len(tagged_flags)).high
    /\ GroundedPositions = 1..Len(Proposed)

\* C28: for every flag count n >= 1, k questions with
\* max(1, int(0.7 * n)) <= k <= n and only valid ids fire none of the three
\* fallback rules, and exactly those k questions are returned.
C28_ObedientResponseKept ==
    /\ ppc = "built" =>
          \A k \in expected.low..expected.high : ~FallbackDecision(k, 0, n_flags)
    /\ (path \in {"llm", "fallback_validation"} /\ ObeysPrompt) =>
          /\ qpc = "returned" /\ path = "llm" /\ ~should_fallback
          /\ hallucination_count = 0
          /\ Len(questions) = Len(Proposed)
          /\ \A i \in 1..Len(questions) :
                Without(questions[i], "category") = Without(Proposed[i], "category")

\* C28 witness: four flags, the two questions the prompt asks for at least
C28_Witness ==
    /\ qpc = "returned" /\ path = "llm"
    /\ Len(tagged_flags) = 4
    /\ ObeysPrompt
    /\ Len(Proposed) = 2
    /\ Len(questions) = 2

\* further cases of C28 that the model reaches
C28_CaseNinety == ~(ppc = "built" /\ n_flags = 90 /\ expected.low = 62)
C28_CaseThreeFlags ==
    ~(qpc = "returned" /\ path = "llm" /\ Len(tagged_flags) = 3 /\ ObeysPrompt
      /\ Len(Proposed) = 2)

----------------------------------------------------------------------------
(* Properties of the aggregate score under added comments *)

\* the sequence s without its i-th element
RemoveAt(s, i) == [j \in 1..(Len(s) - 1) |-> IF j < i THEN s[j] ELSE s[j + 1]]

\* the returned list is some list plus one comment of either polarity: the
\* score of the longer list is not below (positive) or above (negative) the
\* score of the shorter one
MonotoneInSentiment ==
    \A i \in 1..Len(reviews.comments) :
        /\ reviews.comments[i].sentiment = "positive" =>
              OverallScore(RemoveAt(reviews.comments, i)) <= reviews.overall_score
        /\ reviews.comments[i].sentiment = "negative" =>
              OverallScore(RemoveAt(reviews.comments, i)) >= reviews.overall_score

\* C29 (as claimed): adding one positive comment never lowers overall_score,
\* adding one negative comment never raises it, and overall_score is 3.0
\* exactly when the weighted positive total equals the weighted negative
\* total (the empty and the all-neutral list included).
C29_MonotoneAndBalanced ==
    Aggregated =>
        /\ MonotoneInSentiment
        /\ reviews.overall_score = 30 <=> PositiveWeight = NegativeWeight

\* the part of C29 that holds of the code
C29_PartMonotone == Aggregated => MonotoneInSentiment

\* cases of C29 that the model reaches: equal weighted totals scored 2.5, and
\* an added positive comment that raises the score
C29_CaseEqualTotals ==
    ~(Aggregated /\ PositiveWeight = NegativeWeight /\ reviews.overall_score = 25)
C29_CaseRaised ==
    ~(/\ Aggregated /\ Len(reviews.comments) = 2
      /\ reviews.comments[1].sentiment = "negative"
      /\ reviews.comments[2].sentiment = "positive"
      /\ OverallScore(RemoveAt(reviews.comments, 2)) = 20
      /\ reviews.overall_score > 20)

----------------------------------------------------------------------------
(* Properties of the overall assessment *)

\* C30: the student risk is 1 whenever the breakdown is present with fewer
\* than 30 negative comments, hence for every review set of
\* get_student_insights, however many of its comments are negative; the three
\* risks then sum to at most 7 (average at most 7/3) and risk_level is never
\* 'high'.
C30_StudentRiskAlwaysLow ==
    apc = "returned" =>
        /\ ("sentiment_breakdown" \in DOMAIN reviews
            /\ reviews.sentiment_breakdown.negative < 30) => assessment.student_risk = 1
        /\ "sentiment_breakdown" \in DOMAIN reviews
        /\ reviews.sentiment_breakdown.negative <= Len(reviews.comments)
        /\ assessment.student_risk = 1
        /\ assessment.text_risk + assessment.image_risk + assessment.student_risk <= 7
        /\ assessment.risk_level \in {"low", "medium"}

\* C30 witness: all eighteen comments are negative, the text risk is high and the
\* photos are poor, and the request is still assessed as medium
C30_Witness ==
    /\ apc = "returned"
    /\ Len(reviews.comments) = DiverseCap
    /\ reviews.sentiment_breakdown.negative = DiverseCap
    /\ assessment.text_risk = 3 /\ assessment.image_risk = 3
    /\ assessment.student_risk = 1
    /\ assessment.risk_level = "medium"

\* a further case of C30 that the model reaches: a short all-negative list
C30_CaseAllNegative ==
    ~(/\ apc = "returned"
      /\ Len(reviews.comments) = 2
      /\ reviews.sentiment_breakdown.negative = 2
      /\ assessment.student_risk = 1)

\* a further case of C30 that the model reaches: the error aggregate
C30_CaseErrorAggregate ==
    ~(apc = "returned" /\ "error" \in DOMAIN reviews /\ assessment.student_risk = 1)

====
